---------------------------- MODULE Spec2Model ----------------------------
(***************************************************************************)
(* A model of the LMS6002D control engine of libbladeRF                    *)
(* (host/libraries/libbladeRF/src/lms.c).                                  *)
(*                                                                         *)
(* The chip is a file of 128 eight-bit registers behind a transport whose  *)
(* transactions (LMS_READ, LMS_WRITE) may fail.  Every function of lms.c   *)
(* that is modelled is an operator that takes the machine record `m` (the  *)
(* register file, the transport's failure schedule, the analogue behaviour *)
(* of the chip and the log of transactions issued so far) and returns the  *)
(* machine after the function has returned, with its return value in       *)
(* m.st and the value it stored through its out-pointer in m.val.          *)
(***************************************************************************)
EXTENDS Integers, Sequences, FiniteSets, TLC

VARIABLES
    regs,       \* the chip's register file: [0..127 -> 0..255]
    env,        \* the analogue behaviour of the chip (VTUNE comparator, DC calibration engine)
    pc,         \* position of the calling program in the current scenario
    last,       \* the call that returned last: its name, arguments, result and transactions
    prev        \* the call that returned before `last`

vars == <<regs, env, pc, last, prev>>

-----------------------------------------------------------------------------
(* Return values.  0 is success; the negative error numbers of libbladeRF.h *)
(* are kept apart by name only, since lms.c only ever compares a status     *)
(* with 0.                                                                  *)
OK == "OK"
BLADERF_ERR_UNEXPECTED == "BLADERF_ERR_UNEXPECTED"
BLADERF_ERR_INVAL == "BLADERF_ERR_INVAL"
BLADERF_ERR_IO == "BLADERF_ERR_IO"
BLADERF_ERR_TIMEOUT == "BLADERF_ERR_TIMEOUT"

\* the outcome of a call in which an assert() failed: the process is aborted
\* where it stands, and the call does not return
ASSERTION_FAILED == "SIGABRT"

\* The errors a failed register transaction can report.
TransportErrors == {BLADERF_ERR_IO, BLADERF_ERR_TIMEOUT}

-----------------------------------------------------------------------------
(* Eight-bit arithmetic.                                                    *)
\* bit i of v
Bit(v, i) == (v \div (2 ^ i)) % 2

\* a & b, on uint8_t
And8(a, b) ==
    Bit(a, 0) * Bit(b, 0) + 2 * Bit(a, 1) * Bit(b, 1) + 4 * Bit(a, 2) * Bit(b, 2)
    + 8 * Bit(a, 3) * Bit(b, 3) + 16 * Bit(a, 4) * Bit(b, 4) + 32 * Bit(a, 5) * Bit(b, 5)
    + 64 * Bit(a, 6) * Bit(b, 6) + 128 * Bit(a, 7) * Bit(b, 7)

\* a & b, for a, b < 2^16
And(a, b) ==
    And8(a % 256, b % 256) + 256 * And8((a \div 256) % 256, (b \div 256) % 256)

Or(a, b) == a + b - And(a, b)

\* v & ~mask, on a uint8_t
Clear(v, mask) == v - And(v, mask)

\* (uint8_t) v
U8(v) == v % 256

-----------------------------------------------------------------------------
(* 64-bit unsigned values.  The frequencies and the PLL arithmetic of       *)
(* lms.c do not fit the model checker's integers, so a value is held as     *)
(* its digits in base 2^15, least significant first, without leading zero   *)
(* digits.  None of the modelled computations exceeds 64 bits in the C      *)
(* code, so no wrap-around is modelled here.                                *)
\* F on the value of v.  The statements of a C function run one after the
\* other, each on what the one before it left: v is evaluated, once, before
\* F is applied to its value.
Bind(v, F(_)) == IF v = v THEN F(v) ELSE F(v)

Base == 2 ^ 15

RECURSIVE BigNorm(_)
BigNorm(a) ==
    IF Len(a) > 0 /\ a[Len(a)] = 0 THEN BigNorm(SubSeq(a, 1, Len(a) - 1)) ELSE a

RECURSIVE BigOfNat(_)
BigOfNat(n) == IF n = 0 THEN <<>> ELSE <<n % Base>> \o BigOfNat(n \div Base)

BigDigit(a, i) == IF i <= Len(a) THEN a[i] ELSE 0

RECURSIVE BigAddC(_, _, _, _)
BigAddC(a, b, i, c) ==
    IF i > Len(a) /\ i > Len(b)
    THEN (IF c = 0 THEN <<>> ELSE <<c>>)
    ELSE Bind(BigDigit(a, i) + BigDigit(b, i) + c, LAMBDA s :
              <<s % Base>> \o BigAddC(a, b, i + 1, s \div Base))

BigAdd(a, b) == BigAddC(a, b, 1, 0)

\* a - b, for a >= b
RECURSIVE BigSubC(_, _, _, _)
BigSubC(a, b, i, c) ==
    IF i > Len(a) THEN <<>>
    ELSE Bind(BigDigit(a, i) - BigDigit(b, i) - c, LAMBDA s :
              <<s % Base>> \o BigSubC(a, b, i + 1, IF s < 0 THEN 1 ELSE 0))

BigSub(a, b) == BigNorm(BigSubC(a, b, 1, 0))

\* a * k, for 0 <= k < 2^15
RECURSIVE BigMulC(_, _, _, _)
BigMulC(a, k, i, c) ==
    IF i > Len(a) THEN (IF c = 0 THEN <<>> ELSE <<c>>)
    ELSE Bind(a[i] * k + c, LAMBDA s :
              <<s % Base>> \o BigMulC(a, k, i + 1, s \div Base))

BigMul(a, k) == BigNorm(BigMulC(a, k, 1, 0))

\* a < b
RECURSIVE BigLtFrom(_, _, _)
BigLtFrom(a, b, i) ==
    IF i = 0 THEN FALSE
    ELSE IF a[i] # b[i] THEN a[i] < b[i]
    ELSE BigLtFrom(a, b, i - 1)

BigLt(a, b) ==
    IF Len(a) # Len(b) THEN Len(a) < Len(b) ELSE BigLtFrom(a, b, Len(a))

BigLe(a, b) == ~BigLt(b, a)

\* the value of a, for a < 2^30
BigToNat(a) == BigDigit(a, 1) + Base * BigDigit(a, 2)

\* (uint32_t) a
BigU32(a) == BigNorm(<<BigDigit(a, 1), BigDigit(a, 2), BigDigit(a, 3) % 4>>)

\* mhz * 1000000 + hz, for mhz < 2^15 and hz < 2^30
Hz(mhz, hz) == BigAdd(BigMul(BigMul(BigOfNat(mhz), 1000), 1000), BigOfNat(hz))

\* a \div k, for 0 < k <= 2^15, by short division from the top digit down;
\* r is the remainder carried into digit i
RECURSIVE BigDivC(_, _, _, _)
BigDivC(a, k, i, r) ==
    IF i = 0 THEN <<>>
    ELSE Bind(r * Base + a[i], LAMBDA t :
              BigDivC(a, k, i - 1, t % k) \o <<t \div k>>)

BigDiv(a, k) == BigNorm(BigDivC(a, k, Len(a), 0))

\* a << 23
BigShl23(a) == BigMul(BigMul(a, 2 ^ 12), 2 ^ 11)

\* a / (x << 23), for x in 1..16
BigShr23Div(a, x) == BigDiv(BigDiv(a, 2 ^ 12), (2 ^ 11) * x)

-----------------------------------------------------------------------------
(* The transport and the chip.                                              *)

\* The failure schedule of one call: transaction number f1 fails with e1 and
\* transaction number f2 with e2 (a number of 0 names no transaction).
NoFailure == [f1 |-> 0, e1 |-> OK, f2 |-> 0, e2 |-> OK]

IoStatus(io, k) ==
    IF k = io.f1 THEN io.e1 ELSE IF k = io.f2 THEN io.e2 ELSE OK

\* The machine a call starts on.
Machine(r, e, io) ==
    [regs |-> r, env |-> e, io |-> io, log |-> <<>>, steps |-> <<>>,
     polls |-> 0, st |-> OK, val |-> 0]

\* return st, having stored val through the out-pointer
Ret(m, st, val) == [m EXCEPT !.st = st, !.val = val]

\* return st
RetSt(m, st) == [m EXCEPT !.st = st]

\* "status = v; if (status != 0) return status;" followed by F
Try(v, F(_)) == IF v.st # OK THEN v ELSE F(v)

\* as Try, for a function with an out-parameter: a failure returns with the
\* out-parameter as it stood, out
TryOut(v, out, F(_)) == IF v.st # OK THEN Ret(v, v.st, out) ELSE F(v)

\* A loop, "while (c) body" or "for (...; c; ...) body".  Pass is one pass of
\* it on the machine, whose val holds the variables of the loop: the body
\* when c holds and no statement has failed, and nothing otherwise.  A loop
\* that makes at most n passes has ended after n of them; they are taken
\* half by half.
RECURSIVE While(_, _, _)
While(m, Pass(_), n) ==
    IF n <= 1 THEN Pass(m)
    ELSE Try(While(m, Pass, n \div 2), LAMBDA h : While(h, Pass, n - n \div 2))

\* record, for the properties, that step `name` of the running call returned m.st
Step(v, name) == Bind(v, LAMBDA m : [m EXCEPT !.steps = Append(@, <<name, m.st>>)])

VCO_HIGH == 2
VCO_NORM == 0
VCO_LOW == 1

\* The VTUNE comparators of a PLL whose VCO locks for the capacitor codes
\* env.vlo..env.vhi: too high a tuning voltage below them, too low above.
\* For the codes of env.vbad both comparator outputs read 1, the value that
\* is none of VCO_HIGH, VCO_NORM, VCO_LOW.
VtuneOf(e, code) ==
    IF code \in e.vbad THEN 3
    ELSE IF code < e.vlo THEN VCO_HIGH
    ELSE IF code > e.vhi THEN VCO_LOW
    ELSE VCO_NORM

\* The addresses of the VTUNE comparator outputs (TX and RX PLL, base + 10)
VtuneRegs == {26, 42}
\* The DC calibration status (base + 1) and result (base + 0) registers
DcStatusRegs == {1, 49, 81, 97}
DcResultRegs == {0, 48, 80, 96}
\* The DC calibration control registers (base + 3)
DcControlRegs == {3, 51, 83, 99}

\* TRUE when the DC calibration engine cannot settle at the present RX gains
DcStuck(m) ==
    \/ m.env.dcStuck
    \/ m.regs[118] % 128 > m.env.dcMaxVga1Code
    \/ m.regs[101] > m.env.dcMaxVga2Code

\* What the DC calibration engine reports in DC_REGVAL: when it cannot settle
\* the counter stays where DC_CNTVAL was loaded, otherwise it is the converged value.
DcRegval(m, a) ==
    IF DcStuck(m) THEN m.regs[a + 2] ELSE m.env.dcVal

\* The value the chip returns for a read of register a.
ChipRead(m, a) ==
    IF a \in VtuneRegs
        THEN 64 * VtuneOf(m.env, m.regs[a - 1] % 64) + (m.regs[a] % 64)
    ELSE IF a \in DcStatusRegs
        THEN Or(Clear(m.regs[a], 2), IF m.polls + 1 >= m.env.dcPolls THEN 0 ELSE 2)
    ELSE IF a \in DcResultRegs
        THEN DcRegval(m, a)
    ELSE m.regs[a]

\* LMS_READ(dev, addr, &val)
LMS_READ(m, addr) ==
    LET e == IoStatus(m.io, Len(m.log) + 1)
        v == ChipRead(m, addr)
    IN  [m EXCEPT !.log = Append(@, [k |-> "R", a |-> addr, v |-> v, st |-> e]),
                  !.polls = IF addr \in DcStatusRegs /\ e = OK THEN @ + 1 ELSE @,
                  !.st = e,
                  !.val = IF e = OK THEN v ELSE @]

\* LMS_WRITE(dev, addr, val): a failed write leaves the register as it was
LMS_WRITE(m, addr, v) ==
    LET e == IoStatus(m.io, Len(m.log) + 1)
    IN  [m EXCEPT !.log = Append(@, [k |-> "W", a |-> addr, v |-> v, st |-> e]),
                  !.regs = IF e = OK THEN [@ EXCEPT ![addr] = v] ELSE @,
                  !.polls = IF e = OK /\ addr \in DcControlRegs /\ Bit(v, 5) = 1
                            THEN 0 ELSE @,
                  !.st = e]

\* lms_set(dev, addr, mask): read-modify-write that sets the bits of mask
lms_set(m, addr, mask) ==
    Try(LMS_READ(m, addr), LAMBDA r : LMS_WRITE(r, addr, Or(r.val, mask)))

\* lms_clear(dev, addr, mask): read-modify-write that clears the bits of mask
lms_clear(m, addr, mask) ==
    Try(LMS_READ(m, addr), LAMBDA r : LMS_WRITE(r, addr, Clear(r.val, mask)))

-----------------------------------------------------------------------------
(* Static tables and ranges.                                                *)

rxvga1_lut_code2val == <<
    5,  5,  5,  5,  5,  5,  5,  5,  6,  6,  6,  6,  6,  6,  6,  6,  6,  6,  6,
    6,  6,  7,  7,  7,  7,  7,  7,  7,  7,  7,  7,  7,  8,  8,  8,  8,  8,  8,
    8,  8,  8,  8,  8,  9,  9,  9,  9,  9,  9,  9,  9,  9,  10, 10, 10, 10, 10,
    10, 10, 10, 11, 11, 11, 11, 11, 11, 11, 12, 12, 12, 12, 12, 12, 12, 13, 13,
    13, 13, 13, 13, 14, 14, 14, 14, 14, 15, 15, 15, 15, 15, 16, 16, 16, 16, 17,
    17, 17, 18, 18, 18, 18, 19, 19, 19, 20, 20, 21, 21, 22, 22, 22, 23, 24, 24,
    25, 25, 26, 27, 28, 29, 30 >>

rxvga1_lut_val2code == <<
    2,  2,  2,  2,   2,   2,   14,  26,  37,  47,  56,  63,  70,  76,  82,  87,
    91, 95, 99, 102, 104, 107, 109, 111, 113, 114, 116, 117, 118, 119, 120 >>

\* The gain ranges of libbladeRF.h, in dB
BLADERF_RXVGA1_GAIN_MIN == 5
BLADERF_RXVGA1_GAIN_MAX == 30
BLADERF_RXVGA2_GAIN_MIN == 0
BLADERF_RXVGA2_GAIN_MAX == 30

\* bladerf_lna_gain
BLADERF_LNA_GAIN_UNKNOWN == 0
BLADERF_LNA_GAIN_BYPASS == 1
BLADERF_LNA_GAIN_MID == 2
BLADERF_LNA_GAIN_MAX == 3

\* lms_lna
LNA_NONE == 0
LNA_1 == 1
LNA_2 == 2
LNA_3 == 3

\* bladerf_loopback
LoopbackModes ==
    {"BLADERF_LB_BB_TXLPF_RXVGA2", "BLADERF_LB_BB_TXVGA1_RXVGA2",
     "BLADERF_LB_BB_TXLPF_RXLPF", "BLADERF_LB_BB_TXVGA1_RXLPF",
     "BLADERF_LB_RF_LNA1", "BLADERF_LB_RF_LNA2", "BLADERF_LB_RF_LNA3",
     "BLADERF_LB_NONE"}

-----------------------------------------------------------------------------
(* Gain and subsystem control.                                              *)

\* lms_lpf_enable without the "Check to see if we are bypassed" part
lms_lpf_enable_keep_bypass(m, mod, enable) ==
    LET reg == IF mod = "RX" THEN 84 ELSE 52
    IN  Try(LMS_READ(m, reg), LAMBDA r :
            LMS_WRITE(r, reg, IF enable THEN Or(r.val, 2) ELSE Clear(r.val, 2)))

lms_lpf_enable(m, mod, enable) ==
    LET reg == IF mod = "RX" THEN 84 ELSE 52
    IN  Try(LMS_READ(m, reg), LAMBDA r :
        Try(LMS_WRITE(r, reg, IF enable THEN Or(r.val, 2) ELSE Clear(r.val, 2)), LAMBDA w :
        Try(LMS_READ(w, reg + 1), LAMBDA h :
            IF Bit(h.val, 6) = 1
            THEN LMS_WRITE(h, reg + 1, Clear(h.val, 64))
            ELSE RetSt(h, OK))))

lms_lpf_get_mode(m, mod) ==
    LET reg == IF mod = "RX" THEN 84 ELSE 52
    IN  Try(LMS_READ(m, reg), LAMBDA l :
        Try(LMS_READ(l, reg + 1), LAMBDA h :
            LET lpf_enabled  == Bit(l.val, 1) = 1
                lpf_bypassed == Bit(h.val, 6) = 1
            IN  IF lpf_enabled /\ ~lpf_bypassed THEN Ret(h, OK, "BLADERF_LPF_NORMAL")
                ELSE IF ~lpf_enabled /\ lpf_bypassed THEN Ret(h, OK, "BLADERF_LPF_BYPASSED")
                ELSE IF ~lpf_enabled /\ ~lpf_bypassed THEN Ret(h, OK, "BLADERF_LPF_DISABLED")
                ELSE RetSt(h, BLADERF_ERR_INVAL)))

lms_lpf_set_mode(m, mod, mode) ==
    LET reg == IF mod = "RX" THEN 84 ELSE 52
    IN  Try(LMS_READ(m, reg), LAMBDA l :
        Try(LMS_READ(l, reg + 1), LAMBDA h :
            IF mode \notin {"BLADERF_LPF_NORMAL", "BLADERF_LPF_BYPASSED", "BLADERF_LPF_DISABLED"}
            THEN RetSt(h, BLADERF_ERR_INVAL)
            ELSE
            LET data_l == IF mode = "BLADERF_LPF_NORMAL" THEN Or(l.val, 2) ELSE Clear(l.val, 2)
                data_h == IF mode = "BLADERF_LPF_BYPASSED" THEN Or(h.val, 64) ELSE Clear(h.val, 64)
            IN  Try(LMS_WRITE(h, reg, data_l), LAMBDA w : LMS_WRITE(w, reg + 1, data_h))))

lms_lna_set_gain(m, gain) ==
    IF gain \in {BLADERF_LNA_GAIN_BYPASS, BLADERF_LNA_GAIN_MID, BLADERF_LNA_GAIN_MAX}
    THEN Try(LMS_READ(m, 117), LAMBDA r :
             LMS_WRITE(r, 117, Or(Clear(r.val, 192), (gain % 4) * 64)))
    ELSE RetSt(m, BLADERF_ERR_INVAL)

lms_lna_get_gain(m) ==
    Try(LMS_READ(m, 117), LAMBDA r :
        LET gain == (r.val \div 64) % 4
        IN  Ret(r, IF gain = BLADERF_LNA_GAIN_UNKNOWN THEN BLADERF_ERR_INVAL ELSE OK, gain))

lms_select_lna(m, lna) ==
    Try(LMS_READ(m, 117), LAMBDA r :
        LMS_WRITE(r, 117, Or(Clear(r.val, 48), (lna % 4) * 16)))

lms_rxvga1_enable(m, enable) ==
    Try(LMS_READ(m, 125), LAMBDA r :
        LMS_WRITE(r, 125, IF enable THEN Clear(r.val, 8) ELSE Or(r.val, 8)))

lms_rxvga1_set_gain(m, gain) ==
    LET g == IF gain > BLADERF_RXVGA1_GAIN_MAX THEN BLADERF_RXVGA1_GAIN_MAX
             ELSE IF gain < BLADERF_RXVGA1_GAIN_MIN THEN BLADERF_RXVGA1_GAIN_MIN
             ELSE gain
    IN  LMS_WRITE(m, 118, rxvga1_lut_val2code[g + 1])

lms_rxvga1_get_gain(m) ==
    Try(LMS_READ(m, 118), LAMBDA r :
        LET data == IF r.val % 128 > 120 THEN 120 ELSE r.val % 128
        IN  Ret(r, OK, rxvga1_lut_code2val[data + 1]))

lms_rxvga2_enable(m, enable) ==
    Try(LMS_READ(m, 100), LAMBDA r :
        LMS_WRITE(r, 100, IF enable THEN Or(r.val, 2) ELSE Clear(r.val, 2)))

lms_rxvga2_set_gain(m, gain) ==
    LET g == IF gain > BLADERF_RXVGA2_GAIN_MAX THEN BLADERF_RXVGA2_GAIN_MAX
             ELSE IF gain < BLADERF_RXVGA2_GAIN_MIN THEN BLADERF_RXVGA2_GAIN_MIN
             ELSE gain
    IN  LMS_WRITE(m, 101, g \div 3)

\* data *= 3 is computed in a uint8_t
lms_rxvga2_get_gain(m) ==
    Try(LMS_READ(m, 101), LAMBDA r : Ret(r, OK, U8(r.val * 3)))

\* TXVGA gain limits (libbladeRF.h)
BLADERF_TXVGA1_GAIN_MIN == 0 - 35
BLADERF_TXVGA1_GAIN_MAX == 0 - 4
BLADERF_TXVGA2_GAIN_MIN == 0
BLADERF_TXVGA2_GAIN_MAX == 25

\* TXVGA1 without the clamp: the request goes to the register as given
lms_txvga1_set_gain_unclamped(m, gain_int) ==
    LMS_WRITE(m, 65, U8(gain_int + 35))

\* gain = gain + 35 is an int8_t in 0..31; LMS_WRITE takes it as a uint8_t
lms_txvga1_set_gain(m, gain_int) ==
    LET gain == IF gain_int < BLADERF_TXVGA1_GAIN_MIN THEN BLADERF_TXVGA1_GAIN_MIN
                ELSE IF gain_int > BLADERF_TXVGA1_GAIN_MAX THEN BLADERF_TXVGA1_GAIN_MAX
                ELSE gain_int
    IN  LMS_WRITE(m, 65, U8(gain + 35))

lms_txvga1_get_gain(m) ==
    Try(LMS_READ(m, 65), LAMBDA r : Ret(r, OK, And(r.val, 31) - 35))

\* read-modify-write of bits 7:3 of 0x45; below the minimum the code
\* assigns the literal 0
lms_txvga2_set_gain(m, gain_int) ==
    LET gain == IF gain_int > BLADERF_TXVGA2_GAIN_MAX THEN BLADERF_TXVGA2_GAIN_MAX
                ELSE IF gain_int < BLADERF_TXVGA2_GAIN_MIN THEN 0
                ELSE gain_int
    IN  Try(LMS_READ(m, 69), LAMBDA r :
            LMS_WRITE(r, 69, Or(And(r.val, 7), And(gain, 31) * 8)))

lms_txvga2_get_gain(m) ==
    Try(LMS_READ(m, 69), LAMBDA r :
        LET gain == And(r.val \div 8, 31)
        IN  Ret(r, OK, IF gain > 25 THEN 25 ELSE gain))

\* lms_select_pa without "Disable PA1, PA2, and AUX PA": the PA_EN field
\* keeps the bits it has
lms_select_pa_no_disable(m, pa) ==
    Bind(LMS_READ(m, 68), LAMBDA r :
        LET data == CASE pa = "PA_AUX" -> Clear(r.val, 2)
                      [] pa = "PA_1"   -> Or(r.val, 8)
                      [] pa = "PA_2"   -> Or(r.val, 16)
                      [] OTHER         -> r.val
        IN  IF r.st = OK THEN LMS_WRITE(r, 68, data) ELSE r)

\* With a failed read the value of `data` is indeterminate, but it is then
\* never written: status stays non-zero.
lms_select_pa(m, pa) ==
    Bind(LMS_READ(m, 68), LAMBDA r :
        LET base == Or(Clear(r.val, 28), 2)
            data == CASE pa = "PA_AUX" -> Clear(base, 2)
                      [] pa = "PA_1"   -> Or(base, 8)
                      [] pa = "PA_2"   -> Or(base, 16)
                      [] OTHER         -> base
        IN  IF pa \notin {"PA_AUX", "PA_1", "PA_2", "PA_NONE"} THEN RetSt(r, BLADERF_ERR_INVAL)
            ELSE IF r.st = OK THEN LMS_WRITE(r, 68, data)
            ELSE r)

\* the detector is enabled by clearing bit 0 of 0x44
lms_peakdetect_enable(m, enable) ==
    Try(LMS_READ(m, 68), LAMBDA r :
        LMS_WRITE(r, 68, IF enable THEN Clear(r.val, 1) ELSE Or(r.val, 1)))

enable_lna_power(m, enable) ==
    Try(LMS_READ(m, 125), LAMBDA r :
    Try(LMS_WRITE(r, 125, IF enable THEN Clear(r.val, 1) ELSE Or(r.val, 1)), LAMBDA w :
    Try(LMS_READ(w, 112), LAMBDA r2 :
        LMS_WRITE(r2, 112, IF enable THEN Clear(r2.val, 2) ELSE Or(r2.val, 2)))))

enable_rf_loopback_switch(m, enable) ==
    Try(LMS_READ(m, 11), LAMBDA r :
        LMS_WRITE(r, 11, IF enable THEN Or(r.val, 1) ELSE Clear(r.val, 1)))

-----------------------------------------------------------------------------
(* Loopback decoding (needed by the synthesizer).                           *)

\* Register 0x08
LBEN_OPIN == 16
LBEN_VGA2IN == 32
LBEN_LPFIN == 64
LBEN_MASK == Or(Or(LBEN_OPIN, LBEN_VGA2IN), LBEN_LPFIN)
LBRFEN_LNA1 == 1
LBRFEN_LNA2 == 2
LBRFEN_LNA3 == 3
LBRFEN_MASK == 15
\* Register 0x46
LOOPBBEN_TXLPF == 4
LOOPBBEN_TXVGA == 8
LOOPBBEN_ENVPK == 12
LOOBBBEN_MASK == 12

lms_get_loopback_mode(m) ==
    Try(LMS_READ(m, 8), LAMBDA a :
    Try(LMS_READ(a, 70), LAMBDA b :
        LET lben_lbrfen == a.val
            loopbben    == b.val
        IN  IF And(lben_lbrfen, 7) = LBRFEN_LNA1 THEN Ret(b, OK, "BLADERF_LB_RF_LNA1")
            ELSE IF And(lben_lbrfen, 7) = LBRFEN_LNA2 THEN Ret(b, OK, "BLADERF_LB_RF_LNA2")
            ELSE IF And(lben_lbrfen, 7) = LBRFEN_LNA3 THEN Ret(b, OK, "BLADERF_LB_RF_LNA3")
            ELSE IF And(lben_lbrfen, LBEN_MASK) = LBEN_VGA2IN
                    /\ And(loopbben, LOOPBBEN_TXLPF) # 0
                 THEN Ret(b, OK, "BLADERF_LB_BB_TXLPF_RXVGA2")
            ELSE IF And(lben_lbrfen, LBEN_MASK) = LBEN_VGA2IN
                    /\ And(loopbben, LOOPBBEN_TXVGA) # 0
                 THEN Ret(b, OK, "BLADERF_LB_BB_TXVGA1_RXVGA2")
            ELSE IF And(lben_lbrfen, LBEN_MASK) = LBEN_LPFIN
                    /\ And(loopbben, LOOPBBEN_TXLPF) # 0
                 THEN Ret(b, OK, "BLADERF_LB_BB_TXLPF_RXLPF")
            ELSE IF And(lben_lbrfen, LBEN_MASK) = LBEN_LPFIN
                    /\ And(loopbben, LOOPBBEN_TXVGA) # 0
                 THEN Ret(b, OK, "BLADERF_LB_BB_TXVGA1_RXLPF")
            ELSE Ret(b, OK, "BLADERF_LB_NONE")))

\* returns a negative status, or 0 / 1 in m.val with status OK
is_loopback_enabled(m) ==
    Try(lms_get_loopback_mode(m), LAMBDA g :
        Ret(g, OK, IF g.val # "BLADERF_LB_NONE" THEN 1 ELSE 0))

-----------------------------------------------------------------------------
(* Frequency synthesizer.                                                   *)

\* The tuning range and the band split of libbladeRF.h, in Hz
BLADERF_FREQUENCY_MIN == Hz(237, 500000)
BLADERF_FREQUENCY_MAX == Hz(3800, 0)
BLADERF_BAND_HIGH == Hz(1500, 0)

bands == <<
    [low |-> BLADERF_FREQUENCY_MIN, high |-> Hz(285, 625000),         value |-> 39],
    [low |-> Hz(285, 625000),       high |-> Hz(336, 875000),         value |-> 47],
    [low |-> Hz(336, 875000),       high |-> Hz(405, 0),              value |-> 55],
    [low |-> Hz(405, 0),            high |-> Hz(465, 0),              value |-> 63],
    [low |-> Hz(465, 0),            high |-> Hz(571, 250000),         value |-> 38],
    [low |-> Hz(571, 250000),       high |-> Hz(673, 750000),         value |-> 46],
    [low |-> Hz(673, 750000),       high |-> Hz(810, 0),              value |-> 54],
    [low |-> Hz(810, 0),            high |-> Hz(930, 0),              value |-> 62],
    [low |-> Hz(930, 0),            high |-> Hz(1142, 500000),        value |-> 37],
    [low |-> Hz(1142, 500000),      high |-> Hz(1347, 500000),        value |-> 45],
    [low |-> Hz(1347, 500000),      high |-> Hz(1620, 0),             value |-> 53],
    [low |-> Hz(1620, 0),           high |-> Hz(1860, 0),             value |-> 61],
    [low |-> Hz(1860, 0),           high |-> Hz(2285, 0),             value |-> 36],
    [low |-> Hz(2285, 0),           high |-> Hz(2695, 0),             value |-> 44],
    [low |-> Hz(2695, 0),           high |-> Hz(3240, 0),             value |-> 52],
    [low |-> Hz(3240, 0),           high |-> BLADERF_FREQUENCY_MAX,   value |-> 60] >>

\* 38400000 = 4096 * 9375: a product and a quotient by ref_clock are taken one
\* factor after the other, floor(floor(a / 4096) / 9375) = floor(a / 38400000)
ref_clock == BigMul(BigOfNat(4096), 9375)

\* a * ref_clock
TimesRefClock(a) == BigMul(BigMul(a, 4096), 9375)

\* a / ref_clock
OverRefClock(a) == BigDiv(BigDiv(a, 4096), 9375)

\* 1 << ((freqsel & 7) - 3); the shift count is negative, and the C expression
\* undefined, for a freqsel that is not in the band table
VcoX(freqsel) == CASE freqsel % 8 >= 3 -> 2 ^ ((freqsel % 8) - 3)

\* the conversion with the fractional part of the divider left out
lms_frequency_to_hz_integer(f) ==
    BigU32(BigDiv(TimesRefClock(BigOfNat(f.nint)), f.x))

lms_frequency_to_hz(f) ==
    LET pll_coeff == BigAdd(BigShl23(BigOfNat(f.nint)), BigOfNat(f.nfrac))
        half_div  == BigMul(BigMul(BigOfNat(f.x), 2 ^ 11), 2 ^ 11)
    IN  CASE f.reference = 38400000 ->
             BigU32(BigShr23Div(BigAdd(TimesRefClock(pll_coeff), half_div), f.x))

lms_get_frequency(m, mod) ==
    LET base == IF mod = "RX" THEN 32 ELSE 16
    IN  Try(LMS_READ(m, base + 0), LAMBDA r0 :
        Try(LMS_READ(r0, base + 1), LAMBDA r1 :
        Try(LMS_READ(r1, base + 2), LAMBDA r2 :
        Try(LMS_READ(r2, base + 3), LAMBDA r3 :
        Try(LMS_READ(r3, base + 5), LAMBDA r5 :
            LET freqsel == r5.val \div 4
            IN  Ret(r5, OK,
                    [x         |-> VcoX(freqsel),
                     nint      |-> r0.val * 2 + (r1.val \div 128),
                     nfrac     |-> (r1.val % 128) * 65536 + r2.val * 256 + r3.val,
                     freqsel   |-> freqsel,
                     reference |-> 38400000]))))))

\* the probe going on to read VTUNE after a failed write of VCOCAP
tune_vcocap_probe_unchecked_write(m, base, code) ==
    Bind(LMS_WRITE(m, base + 9, U8(code)), LAMBDA w :
    Try(LMS_READ(w, base + 10), LAMBDA r : Ret(r, OK, r.val \div 64)))

\* LMS_WRITE(dev, base + 9, code | data) followed by the read of VTUNE,
\* LMS_READ(dev, base + 10, &vtune); vtune >>= 6.  Returns vtune in m.val.
tune_vcocap_probe(m, base, code) ==
    Try(LMS_WRITE(m, base + 9, U8(code)), LAMBDA w :
    Try(LMS_READ(w, base + 10), LAMBDA r : Ret(r, OK, r.val \div 64)))

\* the binary search without "step >>= 1"
tune_vcocap_coarse_fixed_step(m, base, data) ==
    IF m.st # OK \/ m.val.i >= 6 \/ m.val.break THEN m
    ELSE TryOut(tune_vcocap_probe(m, base, Or(m.val.vcocap, data)), m.val, LAMBDA r :
             IF r.val = VCO_NORM
                 THEN Ret(r, OK, [m.val EXCEPT !.vtune = r.val, !.break = TRUE])
             ELSE IF r.val = VCO_HIGH
                 THEN Ret(r, OK, [m.val EXCEPT !.vtune = r.val, !.i = @ + 1,
                                               !.vcocap = U8(@ + m.val.step)])
             ELSE IF r.val = VCO_LOW
                 THEN Ret(r, OK, [m.val EXCEPT !.vtune = r.val, !.i = @ + 1,
                                               !.vcocap = U8(@ - m.val.step)])
             ELSE Ret(r, BLADERF_ERR_UNEXPECTED, m.val))

\* one pass of "for (i = 0; i < 6; i++)", the binary search from VCOCAP 32;
\* m.val is [i, vcocap, step, vtune, break]
tune_vcocap_coarse(m, base, data) ==
    IF m.st # OK \/ m.val.i >= 6 \/ m.val.break THEN m
    ELSE TryOut(tune_vcocap_probe(m, base, Or(m.val.vcocap, data)), m.val, LAMBDA r :
             IF r.val = VCO_NORM
                 THEN Ret(r, OK, [m.val EXCEPT !.vtune = r.val, !.break = TRUE])
             ELSE IF r.val = VCO_HIGH
                 THEN Ret(r, OK, [m.val EXCEPT !.vtune = r.val, !.i = @ + 1,
                                               !.vcocap = U8(@ + m.val.step),
                                               !.step = @ \div 2])
             ELSE IF r.val = VCO_LOW
                 THEN Ret(r, OK, [m.val EXCEPT !.vtune = r.val, !.i = @ + 1,
                                               !.vcocap = U8(@ - m.val.step),
                                               !.step = @ \div 2])
             ELSE Ret(r, BLADERF_ERR_UNEXPECTED, m.val))

\* one pass of "while (start_i > 0 && vtune != VCO_HIGH)"; m.val is [i, vtune]
tune_vcocap_down(m, base, data) ==
    IF m.st # OK \/ ~(m.val.i > 0 /\ m.val.vtune # VCO_HIGH) THEN m
    ELSE TryOut(tune_vcocap_probe(m, base, Or(m.val.i - 1, data)), m.val, LAMBDA r :
             Ret(r, OK, [i |-> m.val.i - 1, vtune |-> r.val]))

\* one pass of "while (stop_i < 64 && vtune != VCO_LOW)"; m.val is [i, vtune]
tune_vcocap_up(m, base, data) ==
    IF m.st # OK \/ ~(m.val.i < 64 /\ m.val.vtune # VCO_LOW) THEN m
    ELSE TryOut(tune_vcocap_probe(m, base, Or(m.val.i + 1, data)), m.val, LAMBDA r :
             Ret(r, OK, [i |-> m.val.i + 1, vtune |-> r.val]))

\* the data argument is overwritten by the first read
tune_vcocap(m, base) ==
    Try(LMS_READ(m, base + 9), LAMBDA r0 :
        LET data == Clear(r0.val, 63) IN
    Try(While(Ret(r0, OK, [i |-> 0, vcocap |-> 32, step |-> 16, vtune |-> VCO_NORM,
                           break |-> FALSE]),
              LAMBDA x : tune_vcocap_coarse(x, base, data), 6), LAMBDA coarse :
        IF coarse.val.vtune # VCO_NORM THEN RetSt(coarse, BLADERF_ERR_UNEXPECTED) ELSE
        LET vcocap == coarse.val.vcocap IN
    Try(While(Ret(coarse, OK, [i |-> vcocap, vtune |-> coarse.val.vtune]),
              LAMBDA x : tune_vcocap_down(x, base, data), 64), LAMBDA down :
    Try(tune_vcocap_probe(down, base, Or(vcocap, data)), LAMBDA p :
    Try(While(Ret(p, OK, [i |-> vcocap, vtune |-> p.val]),
              LAMBDA x : tune_vcocap_up(x, base, data), 64), LAMBDA up :
        LET start_i == down.val.i + 1
            stop_i  == up.val.i - 1
        IN
    Try(tune_vcocap_probe(up, base, Or(U8((start_i + stop_i) \div 2), data)), LAMBDA q :
        IF q.val # VCO_NORM
        THEN RetSt(q, BLADERF_ERR_UNEXPECTED)
        ELSE RetSt(q, OK)))))))

\* write_pll_config without the loopback test: the output buffer is always
\* updated
write_pll_config_always_selout(m, module, frequency, freqsel) ==
    LET addr == IF module = "TX" THEN 21 ELSE 37
    IN  Try(LMS_READ(m, addr), LAMBDA r :
        Try(is_loopback_enabled(r), LAMBDA lb :
            LET selout == IF BigLt(frequency, BLADERF_BAND_HIGH) THEN 1 ELSE 2
            IN  LMS_WRITE(lb, addr, U8(Or(freqsel * 4, selout)))))

write_pll_config(m, module, frequency, freqsel) ==
    LET addr == IF module = "TX" THEN 21 ELSE 37
    IN  Try(LMS_READ(m, addr), LAMBDA r :
        Try(is_loopback_enabled(r), LAMBDA lb :
            IF lb.val = 0
            THEN LET selout == IF BigLt(frequency, BLADERF_BAND_HIGH) THEN 1 ELSE 2
                 IN  LMS_WRITE(lb, addr, U8(Or(freqsel * 4, selout)))
            ELSE LMS_WRITE(lb, addr, U8(Or(Clear(r.val, 252), freqsel * 4)))))

\* the band search taking the last matching entry instead of the first
FreqselOf_last_match(freq, i) ==
    LET S == {j \in (i + 1)..16 : BigLe(bands[j].low, freq) /\ BigLe(freq, bands[j].high)}
    IN  IF S = {} THEN bands[1].value
        ELSE bands[CHOOSE j \in S : \A k \in S : k <= j].value

\* the band search of lms_set_frequency: first match in ascending order,
\* bands[0].value when nothing matches
RECURSIVE FreqselOf(_, _)
FreqselOf(freq, i) ==
    IF i >= 16 THEN bands[1].value
    ELSE IF BigLe(bands[i + 1].low, freq) /\ BigLe(freq, bands[i + 1].high)
         THEN bands[i + 1].value
    ELSE FreqselOf(freq, i + 1)

\* the PLL descriptor lms_set_frequency computes for freq
FreqDescriptor(freq0) ==
    Bind(IF BigLt(freq0, BLADERF_FREQUENCY_MIN) THEN BLADERF_FREQUENCY_MIN
         ELSE IF BigLt(BLADERF_FREQUENCY_MAX, freq0) THEN BLADERF_FREQUENCY_MAX
         ELSE freq0, LAMBDA freq :
    Bind(FreqselOf(freq, 0), LAMBDA freqsel :
    Bind(BigMul(freq, VcoX(freqsel)), LAMBDA xf :
    Bind(BigToNat(OverRefClock(xf)) % 65536, LAMBDA nint :
    Bind(BigShl23(BigSub(xf, TimesRefClock(BigOfNat(nint)))), LAMBDA temp :
    Bind(BigToNat(BigU32(OverRefClock(BigAdd(temp, BigDiv(ref_clock, 2))))), LAMBDA nfrac :
        [freq |-> freq, x |-> VcoX(freqsel), nint |-> nint, nfrac |-> nfrac,
         freqsel |-> freqsel, reference |-> 38400000]))))))

\* the register programming with the fractional part written before the
\* integer part
lms_set_frequency_registers_nfrac_first(m, mod, f) ==
    LET base == IF mod = "RX" THEN 32 ELSE 16
    IN  Try(Step(write_pll_config(m, mod, f.freq, f.freqsel), "write_pll_config"), LAMBDA s1 :
        Try(Step(LMS_WRITE(s1, base + 2, (f.nfrac \div 256) % 256), "nfrac_mid"), LAMBDA s2 :
        Try(Step(LMS_WRITE(s2, base + 3, f.nfrac % 256), "nfrac_low"), LAMBDA s3 :
        Try(Step(LMS_WRITE(s3, base + 0, U8(f.nint \div 2)), "nint"), LAMBDA s4 :
        Try(Step(LMS_WRITE(s4, base + 1,
                           Or((f.nint % 2) * 128, (f.nfrac \div 65536) % 128)),
                 "nint_nfrac"), LAMBDA s5 :
        Try(Step(Try(LMS_READ(s5, base + 6), LAMBDA r6 :
                     LMS_WRITE(r6, base + 6, Or(Clear(r6.val, 31), 12))), "ichp"), LAMBDA s6 :
        Try(Step(Try(LMS_READ(s6, base + 7), LAMBDA r7 :
                     LMS_WRITE(r7, base + 7, Clear(r7.val, 31))), "iup"), LAMBDA s7 :
            Step(Try(LMS_READ(s7, base + 8), LAMBDA r8 :
                     LMS_WRITE(r8, base + 8, Clear(r8.val, 31))), "idn"))))))))

\* lms_set_frequency from write_pll_config to the charge pump currents: each
\* step runs only if every step before it succeeded
lms_set_frequency_registers(m, mod, f) ==
    LET base == IF mod = "RX" THEN 32 ELSE 16
    IN  Try(Step(write_pll_config(m, mod, f.freq, f.freqsel), "write_pll_config"), LAMBDA s1 :
        Try(Step(LMS_WRITE(s1, base + 0, U8(f.nint \div 2)), "nint"), LAMBDA s2 :
        Try(Step(LMS_WRITE(s2, base + 1,
                           Or((f.nint % 2) * 128, (f.nfrac \div 65536) % 128)),
                 "nint_nfrac"), LAMBDA s3 :
        Try(Step(LMS_WRITE(s3, base + 2, (f.nfrac \div 256) % 256), "nfrac_mid"), LAMBDA s4 :
        Try(Step(LMS_WRITE(s4, base + 3, f.nfrac % 256), "nfrac_low"), LAMBDA s5 :
        Try(Step(Try(LMS_READ(s5, base + 6), LAMBDA r6 :
                     LMS_WRITE(r6, base + 6, Or(Clear(r6.val, 31), 12))), "ichp"), LAMBDA s6 :
        Try(Step(Try(LMS_READ(s6, base + 7), LAMBDA r7 :
                     LMS_WRITE(r7, base + 7, Clear(r7.val, 31))), "iup"), LAMBDA s7 :
            Step(Try(LMS_READ(s7, base + 8), LAMBDA r8 :
                     LMS_WRITE(r8, base + 8, Clear(r8.val, 31))), "idn"))))))))

\* lms_set_frequency from write_pll_config to tune_vcocap
lms_set_frequency_program(m, mod, f) ==
    Try(lms_set_frequency_registers(m, mod, f), LAMBDA s8 :
        Step(tune_vcocap(s8, IF mod = "RX" THEN 32 ELSE 16), "tune_vcocap"))

\* a result that lets the status of the cleanup win
lms_set_frequency_result_cleanup_first(status, dsm_status) ==
    IF dsm_status # OK THEN dsm_status ELSE status

\* return (status == 0) ? dsm_status : status;
lms_set_frequency_result(status, dsm_status) ==
    IF status = OK THEN dsm_status ELSE status

\* "Turn on the DSMs" / "Turn off the DSMs"
lms_set_frequency_dsm(m, enable) ==
    Try(LMS_READ(m, 9), LAMBDA r :
        LMS_WRITE(r, 9, IF enable THEN Or(r.val, 5) ELSE Clear(r.val, 5)))

\* lms_set_frequency returning from a failed step without the cleanup
lms_set_frequency_no_cleanup(m, mod, freq) ==
    Bind(FreqDescriptor(freq), LAMBDA f :
    Try(Step(lms_set_frequency_dsm(m, TRUE), "dsm_enable"), LAMBDA on :
    Try(lms_set_frequency_program(on, mod, f), LAMBDA prog :
        Step(lms_set_frequency_dsm(prog, FALSE), "dsm_disable"))))

lms_set_frequency(m, mod, freq) ==
    Bind(FreqDescriptor(freq), LAMBDA f :
    Try(Step(lms_set_frequency_dsm(m, TRUE), "dsm_enable"), LAMBDA on :
    Bind(lms_set_frequency_program(on, mod, f), LAMBDA prog :
    Bind(Step(lms_set_frequency_dsm(prog, FALSE), "dsm_disable"), LAMBDA off :
        RetSt(off, lms_set_frequency_result(prog.st, off.st))))))

\* lms_select_band without the is_loopback_enabled test
lms_select_band_unguarded(m, module, freq) ==
    Try(is_loopback_enabled(m), LAMBDA lb :
        IF module = "TX"
        THEN lms_select_pa(lb, IF BigLe(BLADERF_BAND_HIGH, freq) THEN "PA_2" ELSE "PA_1")
        ELSE lms_select_lna(lb, IF BigLe(BLADERF_BAND_HIGH, freq) THEN LNA_2 ELSE LNA_1))

\* lms_select_band comparing with "freq > BLADERF_BAND_HIGH"
lms_select_band_above_split(m, module, freq) ==
    Try(is_loopback_enabled(m), LAMBDA lb :
        IF lb.val > 0 THEN RetSt(lb, OK)
        ELSE IF module = "TX"
             THEN lms_select_pa(lb, IF BigLt(BLADERF_BAND_HIGH, freq) THEN "PA_2" ELSE "PA_1")
             ELSE lms_select_lna(lb, IF BigLt(BLADERF_BAND_HIGH, freq) THEN LNA_2 ELSE LNA_1))

lms_select_band(m, module, freq) ==
    Try(is_loopback_enabled(m), LAMBDA lb :
        IF lb.val > 0 THEN RetSt(lb, OK)
        ELSE IF module = "TX"
             THEN lms_select_pa(lb, IF BigLe(BLADERF_BAND_HIGH, freq) THEN "PA_2" ELSE "PA_1")
             ELSE lms_select_lna(lb, IF BigLe(BLADERF_BAND_HIGH, freq) THEN LNA_2 ELSE LNA_1))

-----------------------------------------------------------------------------
(* Loopback state machine.                                                  *)

\* lms_get_frequency, lms_set_frequency and lms_select_band for the frequency
\* the PLL registers hold: shared by the BLADERF_LB_NONE cases of loopback_tx
\* and loopback_rx
restore_band(m, module) ==
    Try(lms_get_frequency(m, module), LAMBDA g :
    Bind(lms_frequency_to_hz(g.val), LAMBDA hz :
    Try(Bind(lms_set_frequency(g, module, hz), LAMBDA s : [s EXCEPT !.steps = m.steps]),
        LAMBDA s : lms_select_band(s, module, hz))))

loopback_tx(m, mode) ==
    IF mode \in {"BLADERF_LB_BB_TXLPF_RXVGA2", "BLADERF_LB_BB_TXLPF_RXLPF",
                 "BLADERF_LB_BB_TXVGA1_RXVGA2", "BLADERF_LB_BB_TXVGA1_RXLPF"}
        THEN RetSt(m, OK)
    ELSE IF mode \in {"BLADERF_LB_RF_LNA1", "BLADERF_LB_RF_LNA2", "BLADERF_LB_RF_LNA3"}
        THEN lms_select_pa(m, "PA_AUX")
    ELSE IF mode = "BLADERF_LB_NONE"
        THEN restore_band(m, "TX")
    ELSE RetSt(m, BLADERF_ERR_INVAL)

\* "Enable the RXLPF if needed"
loopback_rx_lpf(m, lpf_mode) ==
    IF lpf_mode = "BLADERF_LPF_DISABLED"
    THEN lms_lpf_set_mode(m, "RX", "BLADERF_LPF_NORMAL")
    ELSE RetSt(m, OK)

\* case BLADERF_LB_NONE of loopback_rx, up to "Restore proper settings"
loopback_rx_none(m, lpf_mode) ==
    Try(lms_rxvga1_enable(m, TRUE), LAMBDA a :
    Try(loopback_rx_lpf(a, lpf_mode), LAMBDA b :
    Try(lms_rxvga2_enable(b, TRUE), LAMBDA c :
    Try(enable_rf_loopback_switch(c, FALSE), LAMBDA d :
        enable_lna_power(d, TRUE)))))

loopback_rx(m, mode) ==
    Try(lms_lpf_get_mode(m, "RX"), LAMBDA g :
        LET lpf_mode == g.val IN
        IF mode \in {"BLADERF_LB_BB_TXLPF_RXVGA2", "BLADERF_LB_BB_TXVGA1_RXVGA2"} THEN
            Try(lms_rxvga2_enable(g, TRUE), LAMBDA a :
                lms_lpf_set_mode(a, "RX", "BLADERF_LPF_DISABLED"))
        ELSE IF mode \in {"BLADERF_LB_BB_TXLPF_RXLPF", "BLADERF_LB_BB_TXVGA1_RXLPF"} THEN
            Try(lms_rxvga1_enable(g, FALSE), LAMBDA a :
            Try(loopback_rx_lpf(a, lpf_mode), LAMBDA b :
                lms_rxvga2_enable(b, TRUE)))
        ELSE IF mode \in {"BLADERF_LB_RF_LNA1", "BLADERF_LB_RF_LNA2", "BLADERF_LB_RF_LNA3"} THEN
            LET lna == CASE mode = "BLADERF_LB_RF_LNA1" -> 1
                         [] mode = "BLADERF_LB_RF_LNA2" -> 2
                         [] mode = "BLADERF_LB_RF_LNA3" -> 3
            IN  Try(enable_lna_power(g, FALSE), LAMBDA a :
                Try(lms_rxvga1_enable(a, TRUE), LAMBDA b :
                Try(loopback_rx_lpf(b, lpf_mode), LAMBDA c :
                Try(lms_rxvga2_enable(c, TRUE), LAMBDA d :
                Try(LMS_READ(d, 37), LAMBDA r :
                Try(LMS_WRITE(r, 37, Or(Clear(r.val, 3), lna)), LAMBDA w :
                Try(lms_select_lna(w, lna), LAMBDA e :
                    enable_rf_loopback_switch(e, TRUE))))))))
        ELSE IF mode = "BLADERF_LB_NONE" THEN
            Try(loopback_rx_none(g, lpf_mode), LAMBDA e : restore_band(e, "RX"))
        ELSE RetSt(g, BLADERF_ERR_INVAL))

\* the bits loopback_path sets in 0x46 and in 0x08 for a mode
LoopbbenOf(mode) ==
    IF mode \in {"BLADERF_LB_BB_TXLPF_RXVGA2", "BLADERF_LB_BB_TXLPF_RXLPF"} THEN LOOPBBEN_TXLPF
    ELSE IF mode \in {"BLADERF_LB_BB_TXVGA1_RXVGA2", "BLADERF_LB_BB_TXVGA1_RXLPF"} THEN LOOPBBEN_TXVGA
    ELSE 0

LbenLbrfOf(mode) ==
    CASE mode \in {"BLADERF_LB_BB_TXLPF_RXVGA2", "BLADERF_LB_BB_TXVGA1_RXVGA2"} -> LBEN_VGA2IN
      [] mode \in {"BLADERF_LB_BB_TXLPF_RXLPF", "BLADERF_LB_BB_TXVGA1_RXLPF"} -> LBEN_LPFIN
      [] mode = "BLADERF_LB_RF_LNA1" -> LBRFEN_LNA1
      [] mode = "BLADERF_LB_RF_LNA2" -> LBRFEN_LNA2
      [] mode = "BLADERF_LB_RF_LNA3" -> LBRFEN_LNA3
      [] OTHER -> 0

\* loopback_path without its two "default to disabled" statements
loopback_path_keeping(m, mode) ==
    Try(LMS_READ(m, 70), LAMBDA a :
    Try(LMS_READ(a, 8), LAMBDA b :
        IF mode \notin LoopbackModes THEN RetSt(b, BLADERF_ERR_INVAL) ELSE
        Try(LMS_WRITE(b, 70, Or(a.val, LoopbbenOf(mode))), LAMBDA w :
            LMS_WRITE(w, 8, Or(b.val, LbenLbrfOf(mode))))))

loopback_path(m, mode) ==
    Try(LMS_READ(m, 70), LAMBDA a :
    Try(LMS_READ(a, 8), LAMBDA b :
        IF mode \notin LoopbackModes THEN RetSt(b, BLADERF_ERR_INVAL) ELSE
        LET loopbben  == Or(Clear(a.val, LOOBBBEN_MASK), LoopbbenOf(mode))
            lben_lbrf == Or(Clear(b.val, Or(LBRFEN_MASK, LBEN_MASK)), LbenLbrfOf(mode))
        IN  Try(LMS_WRITE(b, 70, loopbben), LAMBDA w :
                LMS_WRITE(w, 8, lben_lbrf))))

\* the first steps of lms_set_loopback_mode without "Disconnect loopback
\* paths while we re-configure blocks"
lms_set_loopback_mode_keep_path(m) ==
    Try(Step(lms_select_pa(m, "PA_NONE"), "select_pa"), LAMBDA a :
    Try(Step(lms_select_lna(a, LNA_NONE), "select_lna"), LAMBDA b :
        Step(Try(LMS_READ(b, 70), LAMBDA x :
             Try(LMS_READ(x, 8), LAMBDA y :
             Try(LMS_WRITE(y, 70, x.val), LAMBDA w : LMS_WRITE(w, 8, y.val)))),
             "path_none")))

\* "Disable all PA/LNAs while entering loopback mode or making changes" and
\* "Disconnect loopback paths while we re-configure blocks"
lms_set_loopback_mode_disconnect(m) ==
    Try(Step(lms_select_pa(m, "PA_NONE"), "select_pa"), LAMBDA a :
    Try(Step(lms_select_lna(a, LNA_NONE), "select_lna"), LAMBDA b :
        Step(loopback_path(b, "BLADERF_LB_NONE"), "path_none")))

\* lms_set_loopback_mode without "Verify a valid mode is provided before
\* shutting anything down"
lms_set_loopback_mode_unverified(m, mode) ==
    Try(lms_set_loopback_mode_disconnect(m), LAMBDA c :
    Try(Try(Step(loopback_rx(c, mode), "loopback_rx"), LAMBDA d :
            Step(loopback_tx(d, mode), "loopback_tx")), LAMBDA e :
        Step(loopback_path(e, mode), "loopback_path")))

lms_set_loopback_mode(m, mode) ==
    IF mode \notin LoopbackModes THEN RetSt(m, BLADERF_ERR_INVAL) ELSE
    Try(lms_set_loopback_mode_disconnect(m), LAMBDA c :
    Try(Try(Step(loopback_rx(c, mode), "loopback_rx"), LAMBDA d :
            Step(loopback_tx(d, mode), "loopback_tx")), LAMBDA e :
        Step(loopback_path(e, mode), "loopback_path")))

-----------------------------------------------------------------------------
(* DC calibration engine.                                                   *)

CalModules ==
    {"BLADERF_DC_CAL_LPF_TUNING", "BLADERF_DC_CAL_TX_LPF",
     "BLADERF_DC_CAL_RX_LPF", "BLADERF_DC_CAL_RXVGA2"}

RxCalModules == {"BLADERF_DC_CAL_RX_LPF", "BLADERF_DC_CAL_RXVGA2"}

max_cal_count == 25

\* the pass of the polling loop storing DC_REGVAL without "&= 0x3f"
lms_dc_cal_poll_unmasked(m, base) ==
    IF m.st # OK \/ ~(m.val.i < max_cal_count /\ ~m.val.done) THEN m
    ELSE TryOut(LMS_READ(m, base + 1), m.val, LAMBDA r :
             IF Bit(r.val, 1) = 0
             THEN Bind(LMS_READ(r, base), LAMBDA v :
                      Ret(v, v.st, [i |-> m.val.i + 1, done |-> TRUE,
                                    dc_regval |-> IF v.st = OK THEN v.val
                                                  ELSE m.val.dc_regval]))
             ELSE Ret(r, OK, [m.val EXCEPT !.i = @ + 1]))

\* one pass of "for (i = 0; i < max_cal_count && !done; i++)";
\* m.val is [i, done, dc_regval]
lms_dc_cal_poll(m, base) ==
    IF m.st # OK \/ ~(m.val.i < max_cal_count /\ ~m.val.done) THEN m
    ELSE TryOut(LMS_READ(m, base + 1), m.val, LAMBDA r :
             IF Bit(r.val, 1) = 0
             THEN Bind(LMS_READ(r, base), LAMBDA v :
                      Ret(v, v.st, [i |-> m.val.i + 1, done |-> TRUE,
                                    dc_regval |-> IF v.st = OK THEN v.val % 64
                                                  ELSE m.val.dc_regval]))
             ELSE Ret(r, OK, [m.val EXCEPT !.i = @ + 1]))

\* lms_dc_cal_loop up to "Main loop checking the calibration"
lms_dc_cal_start(m, base, cal_address, dc_cntval) ==
    Try(LMS_READ(m, base + 3), LAMBDA r :
        LET val == Or(Clear(r.val, 7), cal_address % 8) IN
    Try(LMS_WRITE(r, base + 3, val), LAMBDA w1 :
    Try(LMS_WRITE(w1, base + 2, dc_cntval), LAMBDA w2 :
    Try(LMS_WRITE(w2, base + 3, Or(val, 16)), LAMBDA w3 :
    Try(LMS_WRITE(w3, base + 3, Clear(val, 16)), LAMBDA w4 :
    Try(LMS_WRITE(w4, base + 3, Or(Clear(val, 16), 32)), LAMBDA w5 :
        LMS_WRITE(w5, base + 3, Clear(val, 48))))))))

\* returns *dc_regval in m.val; the callers read it after a success only,
\* so what it held before the call (0 here) is never seen
lms_dc_cal_loop(m, base, cal_address, dc_cntval) ==
    Try(lms_dc_cal_start(m, base, cal_address, dc_cntval), LAMBDA w :
    Bind(While(Ret(w, OK, [i |-> 0, done |-> FALSE, dc_regval |-> 0]),
               LAMBDA x : lms_dc_cal_poll(x, base), max_cal_count), LAMBDA p :
        IF p.st = OK /\ ~p.val.done
        THEN Ret(p, BLADERF_ERR_UNEXPECTED, p.val.dc_regval)
        ELSE Ret(p, p.st, p.val.dc_regval)))

\* memset(state, 0, sizeof(state[0]))
DcCalState0 ==
    [clk_en |-> 0, reg0x71 |-> 0, reg0x7c |-> 0,
     lna_gain |-> 0, rxvga1_gain |-> 0, rxvga2_gain |-> 0,
     base_addr |-> 0, num_submodules |-> 0,
     rxvga1_curr_gain |-> 0, rxvga2_curr_gain |-> 0]

\* returns the state in m.val
dc_cal_backup(m, module) ==
    TryOut(LMS_READ(m, 9), DcCalState0, LAMBDA a :
        LET s1 == [DcCalState0 EXCEPT !.clk_en = a.val] IN
        IF module \notin RxCalModules THEN Ret(a, OK, s1) ELSE
    TryOut(LMS_READ(a, 113), s1, LAMBDA b :
    TryOut(LMS_READ(b, 124), s1, LAMBDA c :
    TryOut(lms_lna_get_gain(c), s1, LAMBDA d :
    TryOut(lms_rxvga1_get_gain(d), s1, LAMBDA e :
    TryOut(lms_rxvga2_get_gain(e), s1, LAMBDA f :
        Ret(f, OK, [s1 EXCEPT !.reg0x71 = b.val, !.reg0x7c = c.val,
                              !.lna_gain = d.val, !.rxvga1_gain = e.val,
                              !.rxvga2_gain = f.val])))))))

\* the set-up of dc_cal_module_init for BLADERF_DC_CAL_RX_LPF and
\* BLADERF_DC_CAL_RXVGA2; returns the state in m.val
dc_cal_module_init_rx(m, module, state) ==
    LET st1 == [state EXCEPT !.rxvga1_curr_gain = BLADERF_RXVGA1_GAIN_MAX]
        st2 == [st1 EXCEPT !.rxvga2_curr_gain = BLADERF_RXVGA2_GAIN_MAX]
    IN
    TryOut(IF module = "BLADERF_DC_CAL_RXVGA2"
           THEN lms_clear(m, 110, 192) ELSE lms_clear(m, 95, 128), state, LAMBDA a :
    TryOut(LMS_WRITE(a, 113, Clear(state.reg0x71, 128)), state, LAMBDA b :
    TryOut(LMS_WRITE(b, 124, Or(state.reg0x7c, 4)), state, LAMBDA c :
    TryOut(lms_lna_set_gain(c, BLADERF_LNA_GAIN_MAX), state, LAMBDA d :
    TryOut(lms_rxvga1_set_gain(d, st1.rxvga1_curr_gain), st1, LAMBDA e :
    Bind(lms_rxvga2_set_gain(e, st2.rxvga2_curr_gain), LAMBDA f :
        Ret(f, f.st, st2)))))))

\* returns the state in m.val
dc_cal_module_init(m, module, state) ==
    IF module \notin CalModules THEN Ret(m, BLADERF_ERR_INVAL, state) ELSE
    LET cal_clock == CASE module = "BLADERF_DC_CAL_LPF_TUNING" -> 32
                       [] module = "BLADERF_DC_CAL_TX_LPF"     -> 2
                       [] module = "BLADERF_DC_CAL_RX_LPF"     -> 8
                       [] module = "BLADERF_DC_CAL_RXVGA2"     -> 16
        st0 == CASE module = "BLADERF_DC_CAL_LPF_TUNING" ->
                        [state EXCEPT !.base_addr = 0, !.num_submodules = 1]
                 [] module = "BLADERF_DC_CAL_TX_LPF" ->
                        [state EXCEPT !.base_addr = 48, !.num_submodules = 2]
                 [] module = "BLADERF_DC_CAL_RX_LPF" ->
                        [state EXCEPT !.base_addr = 80, !.num_submodules = 2]
                 [] module = "BLADERF_DC_CAL_RXVGA2" ->
                        [state EXCEPT !.base_addr = 96, !.num_submodules = 5]
    IN  TryOut(LMS_WRITE(m, 9, Or(state.clk_en, cal_clock)), st0, LAMBDA w :
            IF module = "BLADERF_DC_CAL_LPF_TUNING" THEN Ret(w, OK, st0)
            ELSE IF module \in RxCalModules THEN dc_cal_module_init_rx(w, module, st0)
            ELSE TryOut(lms_set(w, 54, 128), st0, LAMBDA a :
                 Bind(lms_clear(a, 63, 128), LAMBDA b : Ret(b, b.st, st0))))

\* the register set-up of dc_cal_submodule for BLADERF_DC_CAL_RXVGA2
dc_cal_submodule_rxvga2(m, submodule) ==
    CASE submodule = 0 ->
            Try(lms_clear(m, 100, 1), LAMBDA a : LMS_WRITE(a, 104, 1))
      [] submodule = 1 ->
            Try(lms_set(m, 100, 1), LAMBDA a : LMS_WRITE(a, 104, 6))
      [] submodule = 3 -> LMS_WRITE(m, 104, 96)
      [] submodule \in {2, 4} -> RetSt(m, OK)
      [] OTHER -> RetSt(m, BLADERF_ERR_UNEXPECTED)

\* the result written without "val &= ~(0x3f); val |= dc_regval"
dc_cal_submodule_lpf_tuning_overwrite(m, dc_regval) ==
    Try(LMS_READ(m, 53), LAMBDA r1 :
    Try(LMS_WRITE(r1, 53, dc_regval), LAMBDA w1 :
    Try(LMS_READ(w1, 85), LAMBDA r2 :
        LMS_WRITE(r2, 85, dc_regval))))

\* "Set the DC level to RX and TX DCCAL modules"
dc_cal_submodule_lpf_tuning(m, dc_regval) ==
    Try(LMS_READ(m, 53), LAMBDA r1 :
    Try(LMS_WRITE(r1, 53, Or(Clear(r1.val, 63), dc_regval)), LAMBDA w1 :
    Try(LMS_READ(w1, 85), LAMBDA r2 :
        LMS_WRITE(r2, 85, Or(Clear(r2.val, 63), dc_regval)))))

\* dc_cal_submodule reporting convergence when the re-run with DC_CNTVAL 0
\* yields 0
dc_cal_submodule_zero_converges(m, module, submodule, state) ==
    TryOut(IF module = "BLADERF_DC_CAL_RXVGA2"
           THEN dc_cal_submodule_rxvga2(m, submodule) ELSE RetSt(m, OK), FALSE, LAMBDA s :
    TryOut(lms_dc_cal_loop(s, state.base_addr, submodule, 31), FALSE, LAMBDA l1 :
    TryOut(IF l1.val = 31 THEN lms_dc_cal_loop(l1, state.base_addr, submodule, 0) ELSE l1,
           FALSE, LAMBDA l2 :
    TryOut(IF module = "BLADERF_DC_CAL_LPF_TUNING"
           THEN dc_cal_submodule_lpf_tuning(l2, l2.val) ELSE l2, FALSE, LAMBDA t :
        Ret(t, OK, TRUE)))))

\* returns *converged in m.val
dc_cal_submodule(m, module, submodule, state) ==
    TryOut(IF module = "BLADERF_DC_CAL_RXVGA2"
           THEN dc_cal_submodule_rxvga2(m, submodule) ELSE RetSt(m, OK), FALSE, LAMBDA s :
    TryOut(lms_dc_cal_loop(s, state.base_addr, submodule, 31), FALSE, LAMBDA l1 :
    TryOut(IF l1.val = 31 THEN lms_dc_cal_loop(l1, state.base_addr, submodule, 0) ELSE l1,
           FALSE, LAMBDA l2 :
        IF l1.val = 31 /\ l2.val = 0 THEN Ret(l2, OK, FALSE) ELSE
    TryOut(IF module = "BLADERF_DC_CAL_LPF_TUNING"
           THEN dc_cal_submodule_lpf_tuning(l2, l2.val) ELSE l2, FALSE, LAMBDA t :
        Ret(t, OK, TRUE)))))

\* dc_cal_retry_adjustment lowering RXVGA2 by 1 dB instead of 3 dB per retry
dc_cal_retry_adjustment_1dB(m, module, state, limit_reached) ==
    IF module \in {"BLADERF_DC_CAL_LPF_TUNING", "BLADERF_DC_CAL_TX_LPF"}
        THEN Ret(m, OK, [state |-> state, limit_reached |-> TRUE])
    ELSE IF module \in RxCalModules /\ state.rxvga1_curr_gain > BLADERF_RXVGA1_GAIN_MIN
        THEN LET st1 == [state EXCEPT !.rxvga1_curr_gain = @ - 1]
             IN  Bind(lms_rxvga1_set_gain(m, st1.rxvga1_curr_gain), LAMBDA w :
                      Ret(w, w.st, [state |-> st1, limit_reached |-> limit_reached]))
    ELSE IF module = "BLADERF_DC_CAL_RXVGA2"
            /\ state.rxvga2_curr_gain > BLADERF_RXVGA2_GAIN_MIN
        THEN LET st1 == [state EXCEPT !.rxvga2_curr_gain = @ - 1]
             IN  Bind(lms_rxvga2_set_gain(m, st1.rxvga2_curr_gain), LAMBDA w :
                      Ret(w, w.st, [state |-> st1, limit_reached |-> limit_reached]))
    ELSE IF module \in RxCalModules
        THEN Ret(m, OK, [state |-> state, limit_reached |-> TRUE])
    ELSE Ret(m, BLADERF_ERR_UNEXPECTED, [state |-> state, limit_reached |-> TRUE])

\* dc_cal_retry_adjustment lowering RXVGA2 together with RXVGA1 instead of
\* after it
dc_cal_retry_adjustment_both_gains(m, module, state, limit_reached) ==
    IF module \in {"BLADERF_DC_CAL_LPF_TUNING", "BLADERF_DC_CAL_TX_LPF"}
        THEN Ret(m, OK, [state |-> state, limit_reached |-> TRUE])
    ELSE IF module \in RxCalModules /\ state.rxvga1_curr_gain > BLADERF_RXVGA1_GAIN_MIN
        THEN LET st1 == [state EXCEPT !.rxvga1_curr_gain = @ - 1,
                                      !.rxvga2_curr_gain =
                                          IF module = "BLADERF_DC_CAL_RXVGA2"
                                             /\ @ > BLADERF_RXVGA2_GAIN_MIN
                                          THEN @ - 3 ELSE @]
             IN  Try(lms_rxvga1_set_gain(m, st1.rxvga1_curr_gain), LAMBDA w :
                 Bind(lms_rxvga2_set_gain(w, st1.rxvga2_curr_gain), LAMBDA v :
                      Ret(v, v.st, [state |-> st1, limit_reached |-> limit_reached])))
    ELSE IF module \in RxCalModules
        THEN Ret(m, OK, [state |-> state, limit_reached |-> TRUE])
    ELSE Ret(m, BLADERF_ERR_UNEXPECTED, [state |-> state, limit_reached |-> TRUE])

\* returns [state, limit_reached] in m.val; *limit_reached is only ever set
dc_cal_retry_adjustment(m, module, state, limit_reached) ==
    IF module \in {"BLADERF_DC_CAL_LPF_TUNING", "BLADERF_DC_CAL_TX_LPF"}
        THEN Ret(m, OK, [state |-> state, limit_reached |-> TRUE])
    ELSE IF module \in RxCalModules /\ state.rxvga1_curr_gain > BLADERF_RXVGA1_GAIN_MIN
        THEN LET st1 == [state EXCEPT !.rxvga1_curr_gain = @ - 1]
             IN  Bind(lms_rxvga1_set_gain(m, st1.rxvga1_curr_gain), LAMBDA w :
                      Ret(w, w.st, [state |-> st1, limit_reached |-> limit_reached]))
    ELSE IF module = "BLADERF_DC_CAL_RXVGA2"
            /\ state.rxvga2_curr_gain > BLADERF_RXVGA2_GAIN_MIN
        THEN LET st1 == [state EXCEPT !.rxvga2_curr_gain = @ - 3]
             IN  Bind(lms_rxvga2_set_gain(m, st1.rxvga2_curr_gain), LAMBDA w :
                      Ret(w, w.st, [state |-> st1, limit_reached |-> limit_reached]))
    ELSE IF module \in RxCalModules
        THEN Ret(m, OK, [state |-> state, limit_reached |-> TRUE])
    ELSE Ret(m, BLADERF_ERR_UNEXPECTED, [state |-> state, limit_reached |-> TRUE])

\* every step is recorded under its own name; a failed step ends the function.
\* default: assert(!"Invalid module"); status = BLADERF_ERR_INVAL;
dc_cal_module_deinit(m, module) ==
    CASE module = "BLADERF_DC_CAL_LPF_TUNING" -> RetSt(m, OK)
      [] module = "BLADERF_DC_CAL_RX_LPF" ->
            Step(lms_set(m, 95, 128), "deinit:0x5f")
      [] module = "BLADERF_DC_CAL_RXVGA2" ->
            Try(Step(LMS_WRITE(m, 104, 1), "deinit:0x68"), LAMBDA a :
            Try(Step(lms_clear(a, 100, 1), "deinit:0x64"), LAMBDA b :
                Step(lms_set(b, 110, 192), "deinit:0x6e")))
      [] module = "BLADERF_DC_CAL_TX_LPF" ->
            Try(Step(lms_set(m, 63, 128), "deinit:0x3f"), LAMBDA a :
                Step(lms_clear(a, 54, 128), "deinit:0x36"))
      [] OTHER -> IF m.env.asserts
                  THEN RetSt(m, ASSERTION_FAILED)
                  ELSE RetSt(m, BLADERF_ERR_INVAL)

\* the RX branch of dc_cal_restore; ret0 is the status collected so far
dc_cal_restore_rx(m, state, ret0) ==
    Bind(Step(LMS_WRITE(m, 113, state.reg0x71), "restore:0x71"), LAMBDA a :
    Bind(Step(LMS_WRITE(a, 124, state.reg0x7c), "restore:0x7c"), LAMBDA b :
    Bind(Step(lms_lna_set_gain(b, state.lna_gain), "restore:lna"), LAMBDA c :
    Bind(Step(lms_rxvga1_set_gain(c, state.rxvga1_gain), "restore:rxvga1"), LAMBDA d :
    Bind(Step(lms_rxvga2_set_gain(d, state.rxvga2_gain), "restore:rxvga2"), LAMBDA e :
        LET r1 == IF a.st # OK /\ ret0 = OK THEN a.st ELSE ret0
            r2 == IF b.st # OK /\ r1 = OK THEN b.st ELSE r1
            r3 == IF c.st # OK /\ r2 = OK THEN c.st ELSE r2
            r4 == IF d.st # OK /\ r3 = OK THEN d.st ELSE r3
            r5 == IF e.st # OK THEN e.st ELSE r4
        IN  RetSt(e, r5))))))

\* dc_cal_restore writing back the CLK_EN value the calibration clock was
\* enabled in
dc_cal_restore_clock_on(m, module, state) ==
    Bind(Step(LMS_WRITE(m, 9, m.regs[9]), "restore:0x09"), LAMBDA a :
        IF module \in RxCalModules
        THEN dc_cal_restore_rx(a, state, a.st)
        ELSE RetSt(a, a.st))

dc_cal_restore(m, module, state) ==
    Bind(Step(LMS_WRITE(m, 9, state.clk_en), "restore:0x09"), LAMBDA a :
        IF module \in RxCalModules
        THEN dc_cal_restore_rx(a, state, a.st)
        ELSE RetSt(a, a.st))

\* one pass of "for (i = 0; i < state->num_submodules && *converged &&
\* status == 0; i++)"; m.val is [i, converged]
\* the loop of dc_cal_module without "&& *converged" in its condition
dc_cal_module_submodule_ignores_converged(m, module, state) ==
    IF m.st # OK \/ ~(m.val.i < state.num_submodules) THEN m
    ELSE Bind(dc_cal_submodule(m, module, m.val.i, state), LAMBDA s :
             Ret(s, s.st, [i |-> m.val.i + 1,
                           converged |-> m.val.converged /\ s.val]))

\* one pass of "for (i = 0; i < state->num_submodules && *converged &&
\* status == 0; i++)"; m.val is [i, converged]
dc_cal_module_submodule(m, module, state) ==
    IF m.st # OK \/ ~(m.val.i < state.num_submodules /\ m.val.converged) THEN m
    ELSE Bind(dc_cal_submodule(m, module, m.val.i, state), LAMBDA s :
             Ret(s, s.st, [i |-> m.val.i + 1, converged |-> s.val]))

\* returns *converged in m.val
dc_cal_module(m, module, state) ==
    Bind(While(Ret(m, OK, [i |-> 0, converged |-> TRUE]),
               LAMBDA x : dc_cal_module_submodule(x, module, state),
               state.num_submodules), LAMBDA r :
        Ret(r, r.st, r.val.converged))

\* the passes of the while loop of lms_calibrate_dc end no later than the
\* gain codes end: each pass that does not end it lowers one of them
MaxCalPasses ==
    2 + (BLADERF_RXVGA1_GAIN_MAX - BLADERF_RXVGA1_GAIN_MIN)
      + (BLADERF_RXVGA2_GAIN_MAX - BLADERF_RXVGA2_GAIN_MIN)

\* one pass of "while (!converged && !limit_reached && status == 0)";
\* m.val is [state, converged, limit_reached]
lms_calibrate_dc_pass(m, module) ==
    IF m.st # OK \/ m.val.converged \/ m.val.limit_reached THEN m
    ELSE Bind(Step(dc_cal_module(m, module, m.val.state), "dc_cal_module"), LAMBDA a :
             IF a.st = OK /\ ~a.val
             THEN Bind(Step(dc_cal_retry_adjustment(a, module, m.val.state,
                                                    m.val.limit_reached),
                            "dc_cal_retry_adjustment"), LAMBDA r :
                      Ret(r, r.st, [state |-> r.val.state, converged |-> a.val,
                                    limit_reached |-> r.val.limit_reached]))
             ELSE Ret(a, a.st, [m.val EXCEPT !.converged = a.val]))

\* the while loop of lms_calibrate_dc; returns
\* [state, converged, limit_reached] in m.val
lms_calibrate_dc_loop(m, module, state) ==
    Bind(While(Ret(m, OK, [state |-> state, converged |-> FALSE,
                           limit_reached |-> FALSE]),
               LAMBDA x : lms_calibrate_dc_pass(x, module), MaxCalPasses), LAMBDA l :
        CASE l.st # OK \/ l.val.converged \/ l.val.limit_reached -> l)

\* the code from the error label on: both always run, the first error is kept
lms_calibrate_dc_cleanup(m, module, state, status) ==
    Bind(dc_cal_module_deinit(m, module), LAMBDA d :
        IF d.st = ASSERTION_FAILED THEN d ELSE
    Bind(dc_cal_restore(d, module, state), LAMBDA r :
        LET s1 == IF status # OK THEN status ELSE d.st
            s2 == IF s1 # OK THEN s1 ELSE r.st
        IN  RetSt(r, s2)))

lms_calibrate_dc(m, module) ==
    Try(Step(dc_cal_backup(m, module), "dc_cal_backup"), LAMBDA b :
    Bind(Step(dc_cal_module_init(b, module, b.val), "dc_cal_module_init"), LAMBDA i :
        IF i.st # OK THEN lms_calibrate_dc_cleanup(i, module, i.val, i.st) ELSE
    Bind(lms_calibrate_dc_loop(i, module, i.val), LAMBDA l :
        LET st == IF ~l.val.converged /\ l.st = OK THEN BLADERF_ERR_UNEXPECTED ELSE l.st
        IN  lms_calibrate_dc_cleanup(Step(RetSt(l, st), "converge"), module,
                                     l.val.state, st))))

-----------------------------------------------------------------------------
(* The calling programs.  Each specification below is one program that      *)
(* drives a part of the engine; a call is one atomic step.                  *)

\* transactions of a call, counted from 1, that the transport may fail
MaxTxLoopback == 30
\* largest distance between the two failing transactions of one call
MaxGap == 6

\* a transport that fails transaction k
FailAt(k) == [f1 |-> k, e1 |-> BLADERF_ERR_IO, f2 |-> 0, e2 |-> OK]

\* a transport that fails transactions k and k + d, with different errors
FailTwice(k, d) ==
    [f1 |-> k, e1 |-> BLADERF_ERR_IO, f2 |-> k + d, e2 |-> BLADERF_ERR_TIMEOUT]

Failures(n) == {NoFailure} \cup {FailAt(k) : k \in 1..n}

TwoFailures(n, g) == {FailTwice(k, d) : k \in 1..n, d \in 1..g}

\* a chip whose PLLs lock for VCOCAP 30..34 and whose DC calibration settles,
\* driven by a build of the library in which assert() is compiled in
NominalEnv ==
    [vlo |-> 30, vhi |-> 34, vbad |-> {}, dcStuck |-> FALSE, dcMaxVga1Code |-> 127,
     dcMaxVga2Code |-> 255, dcVal |-> 20, dcPolls |-> 1, asserts |-> TRUE]

ZeroRegs == [a \in 0..127 |-> 0]

\* the register file after both synthesizers have been tuned to freq
TunedRegs(e, freq) ==
    Bind(lms_set_frequency(Machine(ZeroRegs, e, NoFailure), "RX", freq), LAMBDA rx :
         lms_set_frequency(rx, "TX", freq)).regs

\* the record kept of a call: m0 the machine it started on, m the one it returned
Call(op, arg, m0, m) ==
    [op |-> op, arg |-> arg, st |-> m.st, val |-> m.val, log |-> m.log,
     steps |-> m.steps, pre |-> m0.regs]

NoCall ==
    [op |-> "none", arg |-> "none", st |-> OK, val |-> 0, log |-> <<>>,
     steps |-> <<>>, pre |-> ZeroRegs]

\* the names of the steps of a call that were executed
StepNames(c) == {c.steps[i][1] : i \in 1..Len(c.steps)}

\* the status of the first step of a call that failed, OK when none did
FirstError(steps) ==
    IF \E i \in 1..Len(steps) : steps[i][2] # OK
    THEN steps[CHOOSE i \in 1..Len(steps) :
                   /\ steps[i][2] # OK
                   /\ \A j \in 1..(i - 1) : steps[j][2] = OK][2]
    ELSE OK

\* the transactions of a call that failed
FailedTx(c) == {i \in 1..Len(c.log) : c.log[i].st # OK}

(* ---- loopback: a program that sets modes until a set fails, and reads ---- *)
(* ---- the mode back                                                    ---- *)

SetLoopbackMode ==
    \E mode \in LoopbackModes, io \in Failures(MaxTxLoopback) :
        /\ pc \in {"idle", "set"}
        /\ \E m0 \in {Machine(regs, env, io)} :
           \E m \in {lms_set_loopback_mode(m0, mode)} :
              /\ regs' = m.regs
              /\ last' = Call("lms_set_loopback_mode", mode, m0, m)
              /\ prev' = [op |-> last.op, arg |-> last.arg, st |-> last.st]
              /\ pc' = IF m.st = OK THEN "set" ELSE "failed"
              /\ UNCHANGED env

GetLoopbackMode ==
    \E io \in Failures(2) :
        /\ pc \in {"idle", "set", "failed"}
        /\ \E m0 \in {Machine(regs, env, io)} :
           \E m \in {lms_get_loopback_mode(m0)} :
              /\ regs' = m.regs
              /\ last' = Call("lms_get_loopback_mode", "none", m0, m)
              /\ prev' = [op |-> last.op, arg |-> last.arg, st |-> last.st]
              /\ pc' = "got"
              /\ UNCHANGED env

InitLoopback ==
    /\ env = NominalEnv
    /\ regs = TunedRegs(NominalEnv, Hz(2400, 0))
    /\ pc = "idle"
    /\ last = NoCall
    /\ prev = [op |-> "none", arg |-> "none", st |-> OK]

NextLoopback == SetLoopbackMode \/ GetLoopbackMode

SpecLoopback == InitLoopback /\ [][NextLoopback]_vars

\* C1: when lms_set_loopback_mode(mode) returned success, whatever was set
\* before it, an lms_get_loopback_mode that follows it immediately and
\* succeeds returns that mode.
LoopbackRoundTrip ==
    (/\ pc = "got"
     /\ last.st = OK
     /\ prev.op = "lms_set_loopback_mode"
     /\ prev.st = OK) => last.val = prev.arg

\* a baseband mode is set, and read back from the registers the set left
LoopbackRoundTripWitness ==
    /\ pc = "got"
    /\ last.st = OK
    /\ prev.op = "lms_set_loopback_mode"
    /\ prev.st = OK
    /\ prev.arg = "BLADERF_LB_BB_TXVGA1_RXLPF"
    /\ last.val = "BLADERF_LB_BB_TXVGA1_RXLPF"
    /\ And(last.pre[8], LBEN_MASK) = LBEN_LPFIN
    /\ And(last.pre[70], LOOBBBEN_MASK) = LOOPBBEN_TXVGA

(* ---- decoding: the loopback mode of a chip whose registers 0x08 and ---- *)
(* ---- 0x46 hold anything                                             ---- *)

InitDecode ==
    /\ env = NominalEnv
    /\ \E lben_lbrfen \in 0..127, loopbben \in {0, 4, 8, 12} :
           regs = [ZeroRegs EXCEPT ![8] = lben_lbrfen, ![70] = loopbben]
    /\ pc = "idle"
    /\ last = NoCall
    /\ prev = [op |-> "none", arg |-> "none", st |-> OK]

NextDecode == GetLoopbackMode

SpecDecode == InitDecode /\ [][NextDecode]_vars

\* the loopback fields of 0x08 (LBEN and LBRFEN) and 0x46 (LOOPBBEN) that
\* loopback_path writes for the 8 modes
ValidLoopbackEncodings ==
    {<<LbenLbrfOf(mode), LoopbbenOf(mode)>> : mode \in LoopbackModes}

LoopbackFields(r) ==
    <<And(r[8], Or(LBRFEN_MASK, LBEN_MASK)), And(r[70], LOOBBBEN_MASK)>>

\* C2: for every content of 0x08 and 0x46 whose loopback fields are not one
\* of the 8 encodings loopback_path writes, lms_get_loopback_mode returns
\* BLADERF_LB_NONE.
DecodeInvalidIsNone ==
    (/\ last.op = "lms_get_loopback_mode"
     /\ last.st = OK
     /\ LoopbackFields(last.pre) \notin ValidLoopbackEncodings)
        => last.val = "BLADERF_LB_NONE"

(* ---- DC calibration: one lms_calibrate_dc on a chip whose gain and   ---- *)
(* ---- clock registers hold various contents                           ---- *)

MaxTxCal == 80

\* chips on which the DC calibration engine behaves differently
CalEnvs ==
    {NominalEnv,
     \* never settles
     [NominalEnv EXCEPT !.dcStuck = TRUE],
     \* settles once RXVGA1 is at 28 dB or less
     [NominalEnv EXCEPT !.dcMaxVga1Code = rxvga1_lut_val2code[28 + 1]],
     \* settles once RXVGA2 is at 24 dB or less
     [NominalEnv EXCEPT !.dcMaxVga2Code = 8],
     \* the done flag never clears within the polling limit
     [NominalEnv EXCEPT !.dcPolls = max_cal_count + 1],
     \* the done flag clears on the last poll, and DC_REGVAL settles at 31
     [NominalEnv EXCEPT !.dcPolls = max_cal_count, !.dcVal = 31]}

\* register files that differ in CLK_EN (0x09), the LNA gain (0x75[7:6]),
\* the RXVGA1 code (0x76) and the RXVGA2 code (0x65)
CalRegs ==
    {[ZeroRegs EXCEPT ![9] = clk_en, ![113] = 128, ![117] = lna * 64,
                      ![118] = vga1, ![101] = vga2] :
        clk_en \in {5, 58}, lna \in {0, 2}, vga1 \in {2, 102}, vga2 \in {3, 10, 11}}

CalScenarios ==
    {<<r, NominalEnv>> : r \in CalRegs}
        \cup {<<[ZeroRegs EXCEPT ![9] = 5, ![113] = 128, ![117] = 128,
                                 ![118] = 102, ![101] = 3], e>> : e \in CalEnvs}

InitCal ==
    /\ \E s \in CalScenarios : regs = s[1] /\ env = s[2]
    /\ pc = "idle"
    /\ last = NoCall
    /\ prev = [op |-> "none", arg |-> "none", st |-> OK]

CalibrateDc ==
    \E module \in CalModules,
       io \in Failures(MaxTxCal) \cup TwoFailures(MaxTxCal, MaxGap) :
        /\ pc = "idle"
        /\ \E m0 \in {Machine(regs, env, io)} :
           \E m \in {lms_calibrate_dc(m0, module)} :
              /\ regs' = m.regs
              /\ last' = Call("lms_calibrate_dc", module, m0, m)
              /\ prev' = [op |-> last.op, arg |-> last.arg, st |-> last.st]
              /\ pc' = "done"
              /\ UNCHANGED env

NextCal == CalibrateDc

SpecCal == InitCal /\ [][NextCal]_vars

\* the steps of dc_cal_module_deinit and of dc_cal_restore that apply to a module
DeinitSteps(module) ==
    CASE module = "BLADERF_DC_CAL_RX_LPF" -> {"deinit:0x5f"}
      [] module = "BLADERF_DC_CAL_RXVGA2" -> {"deinit:0x68", "deinit:0x64", "deinit:0x6e"}
      [] module = "BLADERF_DC_CAL_TX_LPF" -> {"deinit:0x3f", "deinit:0x36"}
      [] OTHER -> {}

RestoreSteps(module) ==
    IF module \in RxCalModules
    THEN {"restore:0x09", "restore:0x71", "restore:0x7c", "restore:lna",
          "restore:rxvga1", "restore:rxvga2"}
    ELSE {"restore:0x09"}

\* the status a step of the last call returned; "absent" when it did not run
StepStatus(c, name) ==
    IF \E i \in 1..Len(c.steps) : c.steps[i][1] = name
    THEN c.steps[CHOOSE i \in 1..Len(c.steps) : c.steps[i][1] = name][2]
    ELSE "absent"

\* the number of module attempts (dc_cal_module calls) of a calibration
Attempts(c) == Cardinality({i \in 1..Len(c.steps) : c.steps[i][1] = "dc_cal_module"})

\* C3: once the backup step of lms_calibrate_dc has succeeded, the call
\* returns only after every module-deinit step that applies to the module
\* and every restore write has been executed, whatever failed before.
CalCleanupCompletes ==
    (/\ last.op = "lms_calibrate_dc"
     /\ StepStatus(last, "dc_cal_backup") = OK)
        => (DeinitSteps(last.arg) \cup RestoreSteps(last.arg)) \subseteq StepNames(last)

\* C4: the value lms_calibrate_dc returns is the error of the
\* chronologically first failing step among backup, init, the converge
\* loop, the deinit steps and the restore writes (success when none failed).
CalReturnsFirstError ==
    last.op = "lms_calibrate_dc" => last.st = FirstError(last.steps)

\* C5: when no transaction fails and the converge loop ends without
\* convergence, lms_calibrate_dc returns BLADERF_ERR_UNEXPECTED, after
\* exactly 1 module attempt for LPF_TUNING and TX_LPF, at most 26 for RX_LPF
\* and at most 36 for RXVGA2.
CalRetryBound ==
    (/\ last.op = "lms_calibrate_dc"
     /\ FailedTx(last) = {}
     /\ StepStatus(last, "converge") \notin {OK, "absent"})
        => /\ last.st = BLADERF_ERR_UNEXPECTED
           /\ CASE last.arg = "BLADERF_DC_CAL_RX_LPF" -> Attempts(last) <= 26
                [] last.arg = "BLADERF_DC_CAL_RXVGA2" -> Attempts(last) <= 36
                [] OTHER -> Attempts(last) = 1

\* RXVGA2 calibration gives up after RXVGA1 and RXVGA2 have both reached their minimum
CalRetryBoundWitness ==
    /\ last.op = "lms_calibrate_dc"
    /\ last.arg = "BLADERF_DC_CAL_RXVGA2"
    /\ FailedTx(last) = {}
    /\ last.st = BLADERF_ERR_UNEXPECTED
    /\ Attempts(last) = 36
    /\ \E i \in 1..Len(last.log) :
           last.log[i].k = "W" /\ last.log[i].a = 101 /\ last.log[i].v = 0

\* C6: when no transaction fails, register 0x09 holds after
\* lms_calibrate_dc what it held before the call, and for RX_LPF and RXVGA2
\* so do registers 0x71 and 0x7c.
CalRestoresRegisters ==
    (/\ last.op = "lms_calibrate_dc"
     /\ FailedTx(last) = {})
        => /\ regs[9] = last.pre[9]
           /\ last.arg \in RxCalModules =>
                  regs[113] = last.pre[113] /\ regs[124] = last.pre[124]

\* an RX calibration changed 0x09, 0x71 and 0x7c on the way and put them back
CalRestoresRegistersWitness ==
    /\ last.op = "lms_calibrate_dc"
    /\ last.arg = "BLADERF_DC_CAL_RX_LPF"
    /\ FailedTx(last) = {}
    /\ last.st = OK
    /\ regs[9] = 5 /\ regs[113] = 128 /\ regs[124] = 0
    /\ \E i, j, k \in 1..Len(last.log) :
           /\ last.log[i].k = "W" /\ last.log[i].a = 9 /\ last.log[i].v = 13
           /\ last.log[j].k = "W" /\ last.log[j].a = 113 /\ last.log[j].v = 0
           /\ last.log[k].k = "W" /\ last.log[k].a = 124 /\ last.log[k].v = 4

\* what the three gain getters return on a register file
GainsOf(r) ==
    Bind(Machine(r, NominalEnv, NoFailure), LAMBDA m :
         <<lms_lna_get_gain(m).val, lms_rxvga1_get_gain(m).val, lms_rxvga2_get_gain(m).val>>)

\* C7: for RX_LPF and RXVGA2, when no transaction fails and the backup
\* succeeds, the three gain getters return after lms_calibrate_dc what they
\* returned before it.
CalRestoresGains ==
    (/\ last.op = "lms_calibrate_dc"
     /\ last.arg \in RxCalModules
     /\ FailedTx(last) = {}
     /\ StepStatus(last, "dc_cal_backup") = OK)
        => GainsOf(regs) = GainsOf(last.pre)

(* ---- synthesizer: one lms_set_frequency ---- *)

MaxTxFreq == 36

\* a PLL that locks for VCOCAP 30..34, and one that locks for no code
\* tune_vcocap tries (it never programs VCOCAP 0 in its first loop)
FreqEnvs ==
    {NominalEnv,
     [NominalEnv EXCEPT !.vlo = 0, !.vhi = 0]}

\* below the tuning range, inside it in the low and in the high band, above it
Frequencies == {Hz(100, 0), Hz(915, 123456), Hz(2400, 0), Hz(4000, 0)}

InitFreq ==
    /\ env \in FreqEnvs
    /\ \E clk_en \in {0, 5, 250} : regs = [ZeroRegs EXCEPT ![9] = clk_en]
    /\ pc = "idle"
    /\ last = NoCall
    /\ prev = [op |-> "none", arg |-> "none", st |-> OK]

SetFrequency ==
    \E mod \in {"RX", "TX"}, freq \in Frequencies,
       io \in Failures(MaxTxFreq) \cup TwoFailures(MaxTxFreq, MaxGap) :
        /\ pc = "idle"
        /\ \E m0 \in {Machine(regs, env, io)} :
           \E m \in {lms_set_frequency(m0, mod, freq)} :
              /\ regs' = m.regs
              /\ last' = Call("lms_set_frequency", <<mod, freq>>, m0, m)
              /\ prev' = [op |-> last.op, arg |-> last.arg, st |-> last.st]
              /\ pc' = "done"
              /\ UNCHANGED env

NextFreq == SetFrequency

SpecFreq == InitFreq /\ [][NextFreq]_vars

\* the call ended with a read of 0x09, and, when the read succeeded, a write
\* to 0x09 of the value read with bits 0 and 2 cleared
EndsWithDsmDisable(c) ==
    LET n == Len(c.log)
    IN  \/ /\ n >= 1
           /\ c.log[n].k = "R" /\ c.log[n].a = 9 /\ c.log[n].st # OK
        \/ /\ n >= 2
           /\ c.log[n - 1].k = "R" /\ c.log[n - 1].a = 9 /\ c.log[n - 1].st = OK
           /\ c.log[n].k = "W" /\ c.log[n].a = 9
           /\ c.log[n].v = Clear(c.log[n - 1].v, 5)

\* C8: once lms_set_frequency has enabled the delta-sigma modulators, it
\* returns only after a read-modify-write of 0x09 that clears bits 0 and 2,
\* whichever later step failed; when that cleanup succeeds, bits 0 and 2 of
\* 0x09 are 0 on return.
DsmCleanupAlways ==
    (/\ last.op = "lms_set_frequency"
     /\ StepStatus(last, "dsm_enable") = OK)
        => /\ StepStatus(last, "dsm_disable") # "absent"
           /\ EndsWithDsmDisable(last)
           /\ StepStatus(last, "dsm_disable") = OK => And(regs[9], 5) = 0

\* VCO tuning failed after the modulators were enabled; they are off on return
DsmCleanupAlwaysWitness ==
    /\ last.op = "lms_set_frequency"
    /\ StepStatus(last, "dsm_enable") = OK
    /\ StepStatus(last, "tune_vcocap") = BLADERF_ERR_UNEXPECTED
    /\ StepStatus(last, "dsm_disable") = OK
    /\ last.st = BLADERF_ERR_UNEXPECTED
    /\ last.pre[9] = 250
    /\ regs[9] = 250
    /\ \E i \in 1..Len(last.log) :
           last.log[i].k = "W" /\ last.log[i].a = 9 /\ last.log[i].v = 255

\* C9: lms_set_frequency returns the first error among DSM enable, the
\* programming steps and VCO tuning; the error of the DSM-disable cleanup
\* is returned only when all of those succeeded.
SetFrequencyFirstError ==
    last.op = "lms_set_frequency" => last.st = FirstError(last.steps)

\* a divider write and the cleanup both failed; the divider's error is returned
SetFrequencyFirstErrorWitness ==
    /\ last.op = "lms_set_frequency"
    /\ StepStatus(last, "nfrac_low") = BLADERF_ERR_IO
    /\ StepStatus(last, "dsm_disable") = BLADERF_ERR_TIMEOUT
    /\ last.st = BLADERF_ERR_IO

(* ---- VCO tuning: one tune_vcocap on a PLL that locks for the trim ---- *)
(* ---- codes a..b                                                   ---- *)

MaxTxTune == 3

\* the largest VCOCAP code (a 6-bit field)
MaxVcocap == 2 ^ 6 - 1

InitTune ==
    /\ \E a \in 0..MaxVcocap, b \in 0..MaxVcocap :
           a <= b /\ env = [NominalEnv EXCEPT !.vlo = a, !.vhi = b]
    /\ regs = [ZeroRegs EXCEPT ![25] = 128 + 5, ![41] = 64 + 63]
    /\ pc = "idle"
    /\ last = NoCall
    /\ prev = [op |-> "none", arg |-> "none", st |-> OK]

TuneVcocap ==
    \E base \in {16, 32}, io \in Failures(MaxTxTune) :
        /\ pc = "idle"
        /\ \E m0 \in {Machine(regs, env, io)} :
           \E m \in {tune_vcocap(m0, base)} :
              /\ regs' = m.regs
              /\ last' = Call("tune_vcocap", base, m0, m)
              /\ prev' = [op |-> last.op, arg |-> last.arg, st |-> last.st]
              /\ pc' = "done"
              /\ UNCHANGED env

NextTune == TuneVcocap

SpecTune == InitTune /\ [][NextTune]_vars

\* the trim code of the last write of a call to register a
LastCodeWritten(c, a) ==
    LET ws == {i \in 1..Len(c.log) : c.log[i].k = "W" /\ c.log[i].a = a}
    IN  c.log[CHOOSE i \in ws : \A j \in ws : j <= i].v % 64

\* C10: on a PLL whose tune status is High below a, Normal in a..b and Low
\* above b (0 <= a <= b <= 63), with no failing transaction, tune_vcocap
\* returns success and the last trim code it writes is floor((a + b) / 2).
TuneProgramsMidpoint ==
    (/\ last.op = "tune_vcocap"
     /\ FailedTx(last) = {})
        => /\ last.st = OK
           /\ LastCodeWritten(last, last.arg + 9) = (env.vlo + env.vhi) \div 2

\* the register round-trips of a call to tune_vcocap: the writes of a trim
\* code to base + 9 that the read of the tune status at base + 10 follows
TuneRoundTrips(c) ==
    {i \in 1..(Len(c.log) - 1) :
        /\ c.log[i].k = "W" /\ c.log[i].a = c.arg + 9
        /\ c.log[i + 1].k = "R" /\ c.log[i + 1].a = c.arg + 10}

\* C11: one run of tune_vcocap performs at most 12 register round-trips
\* (write of a trim code followed by a read of the tune status), whatever
\* the tune status reads.
TuneRoundTripBound ==
    last.op = "tune_vcocap" => Cardinality(TuneRoundTrips(last)) <= 12

(* ---- DC calibration polling: one lms_dc_cal_loop on an engine that ---- *)
(* ---- raises DC_CLBR_DONE on poll number dcPolls                    ---- *)

MaxTxPoll == 12

\* the engines: done on the 1st .. the 27th poll, with a result register
\* whose two top bits read 0 or not
PollEnvs ==
    {[NominalEnv EXCEPT !.dcPolls = k, !.dcVal = v] :
        k \in 1..(max_cal_count + 2), v \in {0, 20, 31, 64 + 20, 255}}

InitPoll ==
    /\ env \in PollEnvs
    /\ \E other \in {0, 253} :
           regs = [a \in 0..127 |-> IF a \in DcStatusRegs THEN other ELSE 0]
    /\ pc = "idle"
    /\ last = NoCall
    /\ prev = [op |-> "none", arg |-> "none", st |-> OK]

DcCalLoop ==
    \E base \in DcResultRegs, cal_address \in {0, 4}, dc_cntval \in {0, 31},
       io \in Failures(MaxTxPoll) :
        /\ pc = "idle"
        /\ \E m0 \in {Machine(regs, env, io)} :
           \E m \in {lms_dc_cal_loop(m0, base, cal_address, dc_cntval)} :
              /\ regs' = m.regs
              /\ last' = Call("lms_dc_cal_loop", base, m0, m)
              /\ prev' = [op |-> last.op, arg |-> last.arg, st |-> last.st]
              /\ pc' = "done"
              /\ UNCHANGED env

NextPoll == DcCalLoop

SpecPoll == InitPoll /\ [][NextPoll]_vars

\* the transactions of a call that read register a
ReadsOf(c, a) == {i \in 1..Len(c.log) : c.log[i].k = "R" /\ c.log[i].a = a}

\* the polls of a call to lms_dc_cal_loop that read DC_CLBR_DONE as 0
DonePolls(c) ==
    {i \in ReadsOf(c, c.arg + 1) : c.log[i].st = OK /\ Bit(c.log[i].v, 1) = 0}

\* C12: lms_dc_cal_loop reads the status register (base + 1) at most 25
\* times.  When no transaction fails: if bit 1 reads 0 on some poll, that
\* poll is the last, the result register (base) is read once, right after
\* it, and the call returns success with that value masked to 6 bits; if
\* bit 1 reads 1 on all 25 polls the call returns BLADERF_ERR_UNEXPECTED
\* without reading the result register.
DcCalPollBound ==
    last.op = "lms_dc_cal_loop" =>
        /\ Cardinality(ReadsOf(last, last.arg + 1)) <= 25
        /\ FailedTx(last) = {} =>
              IF DonePolls(last) # {}
              THEN \E k \in DonePolls(last) :
                      /\ \A i \in ReadsOf(last, last.arg + 1) : i <= k
                      /\ ReadsOf(last, last.arg) = {k + 1}
                      /\ Len(last.log) = k + 1
                      /\ last.st = OK
                      /\ last.val = last.log[k + 1].v % 64
              ELSE /\ Cardinality(ReadsOf(last, last.arg + 1)) = 25
                   /\ ReadsOf(last, last.arg) = {}
                   /\ last.st = BLADERF_ERR_UNEXPECTED

\* the done bit cleared on the 25th poll, and the result register read 84
DcCalPollBoundWitness ==
    /\ last.op = "lms_dc_cal_loop"
    /\ FailedTx(last) = {}
    /\ Cardinality(ReadsOf(last, last.arg + 1)) = 25
    /\ DonePolls(last) # {}
    /\ last.log[Len(last.log)].v = 64 + 20
    /\ last.val = 20
    /\ last.st = OK

(* ---- DC calibration of one submodule: one dc_cal_submodule on the   ---- *)
(* ---- state dc_cal_module_init leaves for the module                 ---- *)

MaxTxSubmodule == 10

\* base_addr and num_submodules as dc_cal_module_init sets them
DcCalStateOf(module) ==
    CASE module = "BLADERF_DC_CAL_LPF_TUNING" ->
            [DcCalState0 EXCEPT !.base_addr = 0, !.num_submodules = 1]
      [] module = "BLADERF_DC_CAL_TX_LPF" ->
            [DcCalState0 EXCEPT !.base_addr = 48, !.num_submodules = 2]
      [] module = "BLADERF_DC_CAL_RX_LPF" ->
            [DcCalState0 EXCEPT !.base_addr = 80, !.num_submodules = 2]
      [] module = "BLADERF_DC_CAL_RXVGA2" ->
            [DcCalState0 EXCEPT !.base_addr = 96, !.num_submodules = 5]

\* engines that settle at 20, at 31, at 0, that do not settle (DC_REGVAL
\* stays at the DC_CNTVAL loaded: 31, then 0), and that never raise done
SubmoduleEnvs ==
    {NominalEnv,
     [NominalEnv EXCEPT !.dcVal = 31],
     [NominalEnv EXCEPT !.dcVal = 0],
     [NominalEnv EXCEPT !.dcStuck = TRUE],
     [NominalEnv EXCEPT !.dcStuck = TRUE, !.dcPolls = 3],
     [NominalEnv EXCEPT !.dcPolls = max_cal_count + 1]}

InitSubmodule ==
    /\ env \in SubmoduleEnvs
    /\ \E dccal \in {0, 64 + 21, 255} :
           regs = [ZeroRegs EXCEPT ![53] = dccal, ![85] = dccal, ![100] = 3]
    /\ pc = "idle"
    /\ last = NoCall
    /\ prev = [op |-> "none", arg |-> "none", st |-> OK]

DcCalSubmodule ==
    \E module \in CalModules, submodule \in 0..4, io \in Failures(MaxTxSubmodule) :
        /\ pc = "idle"
        /\ submodule < DcCalStateOf(module).num_submodules
        /\ \E m0 \in {Machine(regs, env, io)} :
           \E m \in {dc_cal_submodule(m0, module, submodule, DcCalStateOf(module))} :
              /\ regs' = m.regs
              /\ last' = Call("dc_cal_submodule",
                              [module |-> module, submodule |-> submodule,
                               base |-> DcCalStateOf(module).base_addr], m0, m)
              /\ prev' = [op |-> last.op, arg |-> last.arg, st |-> last.st]
              /\ pc' = "done"
              /\ UNCHANGED env

NextSubmodule == DcCalSubmodule

SpecSubmodule == InitSubmodule /\ [][NextSubmodule]_vars

\* the transactions of a call that wrote register a
WritesOf(c, a) == {i \in 1..Len(c.log) : c.log[i].k = "W" /\ c.log[i].a = a}

\* the k-th smallest element of a set of numbers
RECURSIVE Nth(_, _)
Nth(S, k) ==
    LET lo == CHOOSE x \in S : \A y \in S : x <= y
    IN  IF k = 1 THEN lo ELSE Nth(S \ {lo}, k - 1)

\* the DC_CNTVAL the k-th low-level loop of a call was started with, and the
\* DC_REGVAL it ended with
LoopCount(c, k) == c.log[Nth(WritesOf(c, c.arg.base + 2), k)].v
LoopValue(c, k) == c.log[Nth(ReadsOf(c, c.arg.base), k)].v % 64

\* a call of dc_cal_submodule, without a failing transaction, whose first
\* low-level loop ended with the value 31
FirstLoopYields31(c) ==
    /\ c.op = "dc_cal_submodule"
    /\ FailedTx(c) = {}
    /\ ReadsOf(c, c.arg.base) # {}
    /\ LoopValue(c, 1) = 31

\* the loop was run twice, with the starting counts 31 and 0
RerunOnceFromZero(c) ==
    /\ Cardinality(WritesOf(c, c.arg.base + 2)) = 2
    /\ LoopCount(c, 1) = 31
    /\ LoopCount(c, 2) = 0

\* C13, as stated: when the first low-level loop of a submodule yields 31,
\* the loop is re-run exactly once with starting count 0, and if the re-run
\* yields 0 dc_cal_submodule reports converged = true.
SubmoduleQuirkConverges ==
    FirstLoopYields31(last) =>
        /\ RerunOnceFromZero(last)
        /\ (Cardinality(ReadsOf(last, last.arg.base)) = 2 /\ LoopValue(last, 2) = 0)
              => (last.st = OK /\ last.val = TRUE)

\* C13, amended: when the first low-level loop of a submodule yields 31, the
\* loop is re-run exactly once with starting count 0; if the re-run yields 0
\* dc_cal_submodule returns success with converged = false, and writes no
\* result to TX/RX LPF DCCAL; if the re-run ends with another value it
\* reports converged = true.
SubmoduleQuirkFails ==
    FirstLoopYields31(last) =>
        /\ RerunOnceFromZero(last)
        /\ Cardinality(ReadsOf(last, last.arg.base)) = 2 =>
              IF LoopValue(last, 2) = 0
              THEN /\ last.st = OK
                   /\ last.val = FALSE
                   /\ WritesOf(last, 53) \cup WritesOf(last, 85) = {}
              ELSE last.st = OK /\ last.val = TRUE

\* the first loop ended with 31 and the re-run with 0: not converged
SubmoduleQuirkFailsWitness ==
    /\ FirstLoopYields31(last)
    /\ Cardinality(ReadsOf(last, last.arg.base)) = 2
    /\ LoopValue(last, 2) = 0
    /\ last.arg.module = "BLADERF_DC_CAL_LPF_TUNING"
    /\ last.st = OK
    /\ last.val = FALSE

(* ---- loopback: the order of the register writes of one               ---- *)
(* ---- lms_set_loopback_mode                                           ---- *)

\* the write transactions of a call, in the order they were issued
WriteSeq(c) == SelectSeq(c.log, LAMBDA e : e.k = "W")

\* the transactions of a call that wrote one of the two path registers,
\* 0x46 (LOOPBBEN) and 0x08 (LBEN, LBRFEN)
PathWrites(c) == WritesOf(c, 70) \cup WritesOf(c, 8)

\* the content of register a after the first i transactions of a call
RegAfter(c, a, i) ==
    LET ws == {j \in WritesOf(c, a) : j <= i /\ c.log[j].st = OK}
    IN  IF ws = {} THEN c.pre[a]
        ELSE c.log[CHOOSE j \in ws : \A k \in ws : k <= j].v

\* what lms_get_loopback_mode decodes from the register state after the
\* first i transactions of a call
DecodeAfter(c, i) ==
    lms_get_loopback_mode(
        Machine([ZeroRegs EXCEPT ![8] = RegAfter(c, 8, i), ![70] = RegAfter(c, 70, i)],
                NominalEnv, NoFailure)).val

\* the steps of lms_set_loopback_mode, in the order of the code
LoopbackSteps ==
    <<"select_pa", "select_lna", "path_none", "loopback_rx", "loopback_tx",
      "loopback_path">>

\* the first four writes: PA selection None to 0x44, LNA selection None to
\* 0x75, and no path in 0x46, then 0x08
QuiesceWrites(c) ==
    LET w == WriteSeq(c)
    IN  /\ Len(w) >= 1 => (w[1].a = 68 /\ And(w[1].v, 24) = 0)
        /\ Len(w) >= 2 => (w[2].a = 117 /\ And(w[2].v, 48) = 0)
        /\ Len(w) >= 3 => (w[3].a = 70 /\ And(w[3].v, LOOBBBEN_MASK) = 0)
        /\ Len(w) >= 4 => (w[4].a = 8 /\ And(w[4].v, Or(LBRFEN_MASK, LBEN_MASK)) = 0)

\* C14: lms_set_loopback_mode writes in the order PA selection None (0x44),
\* LNA selection None (0x75), path switches None (0x46 then 0x08), RX-side
\* configuration, TX-side configuration, path switches for the requested
\* mode (0x46 then 0x08, the last writes of the call); in every register
\* state between the path-None write and the final path write the loopback
\* fields decode as BLADERF_LB_NONE; the path switches for the requested
\* mode are written only if the RX-side and the TX-side step succeeded.
LoopbackTransitionOrder ==
    last.op = "lms_set_loopback_mode" =>
        LET pw    == PathWrites(last)
            n     == Len(last.log)
            none  == Nth(pw, 2)
            final == IF Cardinality(pw) >= 4 THEN Nth(pw, 4) - 1 ELSE n
        IN  /\ QuiesceWrites(last)
            /\ \A i \in 1..Len(last.steps) : last.steps[i][1] = LoopbackSteps[i]
            /\ Cardinality(pw) <= 4
            /\ Cardinality(pw) >= 3 =>
                  /\ StepStatus(last, "loopback_rx") = OK
                  /\ StepStatus(last, "loopback_tx") = OK
                  /\ last.log[Nth(pw, 3)].a = 70
                  /\ \A i \in Nth(pw, 3)..n :
                        last.log[i].k = "W" => last.log[i].a \in {70, 8}
            /\ Cardinality(pw) >= 4 => (Nth(pw, 4) = n /\ last.log[n].a = 8)
            /\ (Cardinality(pw) >= 2 /\ last.log[none].st = OK) =>
                  \A i \in none..final : DecodeAfter(last, i) = "BLADERF_LB_NONE"

\* a change from a baseband loopback to an RF loopback, all four path writes
\* done, with the RX side and the TX side configured in between
LoopbackTransitionOrderWitness ==
    /\ last.op = "lms_set_loopback_mode"
    /\ last.arg = "BLADERF_LB_RF_LNA1"
    /\ last.st = OK
    /\ DecodeAfter(last, 0) = "BLADERF_LB_BB_TXLPF_RXLPF"
    /\ Cardinality(PathWrites(last)) = 4
    /\ Nth(PathWrites(last), 3) > Nth(PathWrites(last), 2) + 4
    /\ DecodeAfter(last, Len(last.log)) = "BLADERF_LB_RF_LNA1"

(* ---- loopback: one lms_set_loopback_mode with any value of the mode ---- *)
(* ---- argument                                                       ---- *)

MaxTxLoopbackArg == 4

\* values of a bladerf_loopback argument that name none of the 8 modes
InvalidLoopbackModes ==
    {"(bladerf_loopback) 8", "(bladerf_loopback) 255", "(bladerf_loopback) -1"}

InitLoopbackArg ==
    /\ env = NominalEnv
    /\ \E lben_lbrfen \in {0, LBEN_VGA2IN, LBEN_LPFIN, LBRFEN_LNA1, LBRFEN_LNA3},
          loopbben \in {0, LOOPBBEN_TXLPF, LOOPBBEN_TXVGA},
          pa_lna \in {0, 8, 16} :
           regs = [TunedRegs(NominalEnv, Hz(2400, 0)) EXCEPT
                      ![8] = lben_lbrfen, ![70] = loopbben,
                      ![68] = pa_lna, ![117] = pa_lna]
    /\ pc = "idle"
    /\ last = NoCall
    /\ prev = [op |-> "none", arg |-> "none", st |-> OK]

SetLoopbackModeArg ==
    \E mode \in LoopbackModes \cup InvalidLoopbackModes,
       io \in Failures(MaxTxLoopbackArg) :
        /\ pc = "idle"
        /\ \E m0 \in {Machine(regs, env, io)} :
           \E m \in {lms_set_loopback_mode(m0, mode)} :
              /\ regs' = m.regs
              /\ last' = Call("lms_set_loopback_mode", mode, m0, m)
              /\ prev' = [op |-> last.op, arg |-> last.arg, st |-> last.st]
              /\ pc' = "done"
              /\ UNCHANGED env

NextLoopbackArg == SetLoopbackModeArg

SpecLoopbackArg == InitLoopbackArg /\ [][NextLoopbackArg]_vars

\* C15: lms_set_loopback_mode called with a mode that is not one of the 8
\* known modes returns BLADERF_ERR_INVAL without any register read or write.
SetLoopbackRejectsInvalidMode ==
    (last.op = "lms_set_loopback_mode" /\ last.arg \notin LoopbackModes) =>
        /\ last.st = BLADERF_ERR_INVAL
        /\ last.log = <<>>
        /\ regs = last.pre

\* an invalid mode was rejected while a loopback path and a PA were selected
SetLoopbackRejectsInvalidModeWitness ==
    /\ last.op = "lms_set_loopback_mode"
    /\ last.arg = "(bladerf_loopback) 8"
    /\ last.st = BLADERF_ERR_INVAL
    /\ last.log = <<>>
    /\ regs[8] = LBRFEN_LNA1
    /\ regs[68] = 16

(* ---- DC calibration: one lms_calibrate_dc with any value of the     ---- *)
(* ---- module argument, in a build with or without assert()           ---- *)

MaxTxCalArg == 3

\* values of a bladerf_cal_module argument that name none of the 4 modules
InvalidCalModules ==
    {"(bladerf_cal_module) 4", "(bladerf_cal_module) 255", "(bladerf_cal_module) -1"}

InitCalArg ==
    /\ env \in {NominalEnv, [NominalEnv EXCEPT !.asserts = FALSE]}
    /\ regs \in CalRegs
    /\ pc = "idle"
    /\ last = NoCall
    /\ prev = [op |-> "none", arg |-> "none", st |-> OK]

CalibrateDcArg ==
    \E module \in CalModules \cup InvalidCalModules, io \in Failures(MaxTxCalArg) :
        /\ pc = "idle"
        /\ \E m0 \in {Machine(regs, env, io)} :
           \E m \in {lms_calibrate_dc(m0, module)} :
              /\ regs' = m.regs
              /\ last' = Call("lms_calibrate_dc", module, m0, m)
              /\ prev' = [op |-> last.op, arg |-> last.arg, st |-> last.st]
              /\ pc' = IF m.st = ASSERTION_FAILED THEN "aborted" ELSE "done"
              /\ UNCHANGED env

NextCalArg == CalibrateDcArg

SpecCalArg == InitCalArg /\ [][NextCalArg]_vars

\* C16: lms_calibrate_dc called with a module outside the four calibration
\* modules returns BLADERF_ERR_INVAL, performs no register write, and
\* reaches no assertion failure.
CalRejectsInvalidModule ==
    (last.op = "lms_calibrate_dc" /\ last.arg \notin CalModules) =>
        /\ pc # "aborted"
        /\ last.st = BLADERF_ERR_INVAL
        /\ \A i \in 1..Len(last.log) : last.log[i].k # "W"

(* ---- low-pass filter mode: one lms_lpf_get_mode on any content of   ---- *)
(* ---- the two filter registers                                       ---- *)

MaxTxLpf == 2

InitLpf ==
    /\ env = NominalEnv
    /\ \E data_l \in {0, 2, 60, 62, 253, 255}, data_h \in {0, 64, 12, 76, 191, 255},
          rx \in BOOLEAN :
           regs = [ZeroRegs EXCEPT ![IF rx THEN 84 ELSE 52] = data_l,
                                   ![IF rx THEN 85 ELSE 53] = data_h]
    /\ pc = "idle"
    /\ last = NoCall
    /\ prev = [op |-> "none", arg |-> "none", st |-> OK]

LpfGetMode ==
    \E mod \in {"RX", "TX"}, io \in Failures(MaxTxLpf) :
        /\ pc = "idle"
        /\ \E m0 \in {Machine(regs, env, io)} :
           \E m \in {lms_lpf_get_mode(m0, mod)} :
              /\ regs' = m.regs
              /\ last' = Call("lms_lpf_get_mode", mod, m0, m)
              /\ prev' = [op |-> last.op, arg |-> last.arg, st |-> last.st]
              /\ pc' = "done"
              /\ UNCHANGED env

NextLpf == LpfGetMode

SpecLpf == InitLpf /\ [][NextLpf]_vars

\* the enable bit (bit 1 of 0x34 / 0x54) and the bypass bit (bit 6 of
\* 0x35 / 0x55) of the filter of module mod in the registers r
LpfEnable(r, mod) == Bit(r[IF mod = "RX" THEN 84 ELSE 52], 1)
LpfBypass(r, mod) == Bit(r[IF mod = "RX" THEN 85 ELSE 53], 6)

\* C17: without a failing transaction lms_lpf_get_mode returns Normal for
\* (enable, bypass) = (1, 0), Bypassed for (0, 1), Disabled for (0, 0), and
\* for (1, 1) it reports the error BLADERF_ERR_UNEXPECTED.
LpfModeDecode ==
    (last.op = "lms_lpf_get_mode" /\ FailedTx(last) = {}) =>
        LET en == LpfEnable(last.pre, last.arg)
            by == LpfBypass(last.pre, last.arg)
        IN  /\ (en = 1 /\ by = 0) => (last.st = OK /\ last.val = "BLADERF_LPF_NORMAL")
            /\ (en = 0 /\ by = 1) => (last.st = OK /\ last.val = "BLADERF_LPF_BYPASSED")
            /\ (en = 0 /\ by = 0) => (last.st = OK /\ last.val = "BLADERF_LPF_DISABLED")
            /\ (en = 1 /\ by = 1) => last.st = BLADERF_ERR_UNEXPECTED

(* ---- gain stages: one set-gain call followed by one get-gain call   ---- *)

MaxTxGain == 3
GainSpan == 40

GainStages == {"rxvga1", "rxvga2", "txvga1", "txvga2"}

\* requested gains: every integer around the four ranges and two requests
\* far outside an int8_t
GainRequests == (0 - GainSpan)..GainSpan \cup {0 - 1000, 1000}

GainRegister(stage) ==
    CASE stage = "rxvga1" -> 118
      [] stage = "rxvga2" -> 101
      [] stage = "txvga1" -> 65
      [] stage = "txvga2" -> 69

GainMin(stage) ==
    CASE stage = "rxvga1" -> BLADERF_RXVGA1_GAIN_MIN
      [] stage = "rxvga2" -> BLADERF_RXVGA2_GAIN_MIN
      [] stage = "txvga1" -> BLADERF_TXVGA1_GAIN_MIN
      [] stage = "txvga2" -> BLADERF_TXVGA2_GAIN_MIN

GainMax(stage) ==
    CASE stage = "rxvga1" -> BLADERF_RXVGA1_GAIN_MAX
      [] stage = "rxvga2" -> BLADERF_RXVGA2_GAIN_MAX
      [] stage = "txvga1" -> BLADERF_TXVGA1_GAIN_MAX
      [] stage = "txvga2" -> BLADERF_TXVGA2_GAIN_MAX

\* dB per register code of a stage
GainGranularity(stage) == IF stage = "rxvga2" THEN 3 ELSE 1

set_gain(m, stage, gain) ==
    CASE stage = "rxvga1" -> lms_rxvga1_set_gain(m, gain)
      [] stage = "rxvga2" -> lms_rxvga2_set_gain(m, gain)
      [] stage = "txvga1" -> lms_txvga1_set_gain(m, gain)
      [] stage = "txvga2" -> lms_txvga2_set_gain(m, gain)

get_gain(m, stage) ==
    CASE stage = "rxvga1" -> lms_rxvga1_get_gain(m)
      [] stage = "rxvga2" -> lms_rxvga2_get_gain(m)
      [] stage = "txvga1" -> lms_txvga1_get_gain(m)
      [] stage = "txvga2" -> lms_txvga2_get_gain(m)

InitGain ==
    /\ env = NominalEnv
    /\ \E v \in {0, 7, 85, 255} :
           regs = [a \in 0..127 |-> IF a \in {GainRegister(s) : s \in GainStages}
                                    THEN v ELSE 0]
    /\ pc = "idle"
    /\ last = NoCall
    /\ prev = [op |-> "none", arg |-> "none", st |-> OK]

SetGain(stage) ==
    \E gain \in GainRequests, io \in Failures(MaxTxGain) :
        /\ pc = "idle"
        /\ \E m0 \in {Machine(regs, env, io)} :
           \E m \in {set_gain(m0, stage, gain)} :
              /\ regs' = m.regs
              /\ last' = Call("set_gain", [stage |-> stage, gain |-> gain], m0, m)
              /\ prev' = [op |-> last.op, arg |-> last.arg, st |-> last.st]
              /\ pc' = "set"
              /\ UNCHANGED env

GetGain(stage) ==
    \E io \in Failures(MaxTxGain) :
        /\ pc \in {"idle", "set"}
        /\ \E m0 \in {Machine(regs, env, io)} :
           \E m \in {get_gain(m0, stage)} :
              /\ regs' = m.regs
              /\ last' = Call("get_gain", [stage |-> stage], m0, m)
              /\ prev' = [op |-> last.op, arg |-> last.arg, st |-> last.st]
              /\ pc' = "done"
              /\ UNCHANGED env

RxVga1SetGain == SetGain("rxvga1")
RxVga1GetGain == GetGain("rxvga1")
RxVga2SetGain == SetGain("rxvga2")
RxVga2GetGain == GetGain("rxvga2")
TxVga1SetGain == SetGain("txvga1")
TxVga1GetGain == GetGain("txvga1")
TxVga2SetGain == SetGain("txvga2")
TxVga2GetGain == GetGain("txvga2")

NextGain ==
    \/ RxVga1SetGain
    \/ RxVga1GetGain
    \/ RxVga2SetGain
    \/ RxVga2GetGain
    \/ TxVga1SetGain
    \/ TxVga1GetGain
    \/ TxVga2SetGain
    \/ TxVga2GetGain

SpecGain == InitGain /\ [][NextGain]_vars

\* a successful get-gain call that directly follows a successful set-gain
\* call on the same stage
SetThenGet ==
    /\ last.op = "get_gain" /\ last.st = OK
    /\ prev.op = "set_gain" /\ prev.st = OK
    /\ prev.arg.stage = last.arg.stage

\* C18: after a set-gain call, get-gain on the same stage returns the
\* minimum of the stage for a request below it, the maximum for a request
\* above it, and the request itself when it is in range and a multiple of
\* the stage's dB per code (1 for RXVGA1, TXVGA1, TXVGA2; 3 for RXVGA2).
GainSetThenGet ==
    SetThenGet =>
        LET stage == prev.arg.stage
            gain == prev.arg.gain
        IN  /\ gain < GainMin(stage) => last.val = GainMin(stage)
            /\ gain > GainMax(stage) => last.val = GainMax(stage)
            /\ (/\ gain >= GainMin(stage)
                /\ gain <= GainMax(stage)
                /\ gain % GainGranularity(stage) = 0) => last.val = gain

\* a clamped TXVGA1 request read back as the maximum
GainSetThenGetWitness ==
    /\ SetThenGet
    /\ prev.arg.stage = "txvga1"
    /\ prev.arg.gain > BLADERF_TXVGA1_GAIN_MAX
    /\ last.val = BLADERF_TXVGA1_GAIN_MAX

\* the gain a set-gain call programs: the request clamped to the range of
\* the stage, then rounded down to a whole register code
EffectiveGain(stage, gain) ==
    LET g == IF gain > GainMax(stage) THEN GainMax(stage)
             ELSE IF gain < GainMin(stage) THEN GainMin(stage)
             ELSE gain
    IN  g - (g % GainGranularity(stage))

\* the int a set-gain function hands back to its caller is its status, and
\* the status of a successful call is 0; there is no out-parameter
set_gain_return(c) == CASE c.st = OK -> 0

\* a set-gain call none of whose register transactions failed
SetGainDone == last.op = "set_gain" /\ FailedTx(last) = {}

\* no set-gain call reports an error unless a register transaction failed
ClampingSucceeds == SetGainDone => last.st = OK

\* C19: a set-gain call without a failed register transaction succeeds,
\* whether or not it clamped the request, and the value it returns to its
\* caller is the effective gain it programmed.
SetGainReportsEffective ==
    SetGainDone =>
        /\ last.st = OK
        /\ set_gain_return(last) = EffectiveGain(last.arg.stage, last.arg.gain)

(* ---- bandwidth selection: lms_uint2bw on a requested bandwidth, then  ---- *)
(* ---- lms_bw2uint on the selected entry                               ---- *)

kHz(x) == x * 1000
MHz(x) == x * 1000000

\* LPF conversion table
uint_bandwidths == <<
    MHz(28), MHz(20), MHz(14), MHz(12), MHz(10), kHz(8750), MHz(7), MHz(6),
    kHz(5500), MHz(5), kHz(3840), MHz(3), kHz(2750), kHz(2500), kHz(1750),
    kHz(1500) >>

\* the enumerators of lms_bw in the order of their values 0..15 (lms.h)
lms_bw == <<
    "BW_28MHz", "BW_20MHz", "BW_14MHz", "BW_12MHz", "BW_10MHz", "BW_8p75MHz",
    "BW_7MHz", "BW_6MHz", "BW_5p5MHz", "BW_5MHz", "BW_3p84MHz", "BW_3MHz",
    "BW_2p75MHz", "BW_2p5MHz", "BW_1p75MHz", "BW_1p5MHz" >>

lms_bw_value(name) == CHOOSE v \in 0..15 : lms_bw[v + 1] = name

\* the selection with the comparisons made strict
lms_uint2bw_strict(req) ==
    CHOOSE v \in 0..15 :
        /\ v < 15 => req >= uint_bandwidths[v + 2]
        /\ v > 0 => req < uint_bandwidths[v + 1]

lms_uint2bw(req) ==
    lms_bw_value(
        IF      req <= kHz(1500) THEN "BW_1p5MHz"
        ELSE IF req <= kHz(1750) THEN "BW_1p75MHz"
        ELSE IF req <= kHz(2500) THEN "BW_2p5MHz"
        ELSE IF req <= kHz(2750) THEN "BW_2p75MHz"
        ELSE IF req <= MHz(3)    THEN "BW_3MHz"
        ELSE IF req <= kHz(3840) THEN "BW_3p84MHz"
        ELSE IF req <= MHz(5)    THEN "BW_5MHz"
        ELSE IF req <= kHz(5500) THEN "BW_5p5MHz"
        ELSE IF req <= MHz(6)    THEN "BW_6MHz"
        ELSE IF req <= MHz(7)    THEN "BW_7MHz"
        ELSE IF req <= kHz(8750) THEN "BW_8p75MHz"
        ELSE IF req <= MHz(10)   THEN "BW_10MHz"
        ELSE IF req <= MHz(12)   THEN "BW_12MHz"
        ELSE IF req <= MHz(14)   THEN "BW_14MHz"
        ELSE IF req <= MHz(20)   THEN "BW_20MHz"
        ELSE                          "BW_28MHz")

\* Return the table entry
lms_bw2uint(bw) ==
    LET idx == And(bw, 15)
    IN  uint_bandwidths[idx + 1]

MaxBandwidthSteps == 130
BandwidthStep == 250000

\* requested bandwidths: a grid from 0 to beyond the widest entry, every
\* table entry with its two neighbours, 8 MHz, 30 MHz and the largest int
BandwidthRequests ==
    {k * BandwidthStep : k \in 0..MaxBandwidthSteps}
    \cup {uint_bandwidths[i] + d : i \in 1..16, d \in {0 - 1, 0, 1}}
    \cup {1, MHz(8), MHz(30), 2147483647}

InitBandwidth ==
    /\ env = NominalEnv
    /\ regs = ZeroRegs
    /\ pc = "idle"
    /\ last = NoCall
    /\ prev = [op |-> "none", arg |-> "none", st |-> OK]

Uint2Bw ==
    \E req \in BandwidthRequests :
        /\ pc = "idle"
        /\ last' = [NoCall EXCEPT !.op = "lms_uint2bw", !.arg = req,
                                  !.val = lms_uint2bw(req)]
        /\ prev' = [op |-> last.op, arg |-> last.arg, st |-> last.st]
        /\ pc' = "selected"
        /\ UNCHANGED <<regs, env>>

Bw2Uint ==
    /\ pc = "selected"
    /\ last' = [NoCall EXCEPT !.op = "lms_bw2uint", !.arg = last.val,
                              !.val = lms_bw2uint(last.val)]
    /\ prev' = [op |-> last.op, arg |-> last.arg, st |-> last.st]
    /\ pc' = "done"
    /\ UNCHANGED <<regs, env>>

NextBandwidth == Uint2Bw \/ Bw2Uint

SpecBandwidth == InitBandwidth /\ [][NextBandwidth]_vars

\* the table entries that are no smaller than r
EntriesAtLeast(r) == {uint_bandwidths[i] : i \in 1..16} \ 0..(r - 1)

SetMin(S) == CHOOSE x \in S : \A y \in S : x <= y

\* lms_bw2uint applied to the result of lms_uint2bw
BandwidthRoundTrip == last.op = "lms_bw2uint" /\ prev.op = "lms_uint2bw"

\* C20: lms_bw2uint(lms_uint2bw(r)) is the smallest table entry that is at
\* least r, and 28 MHz when r is above every entry; 8,000,000 Hz gives
\* 8.75 MHz and 30,000,000 Hz gives 28 MHz.
BandwidthRounding ==
    BandwidthRoundTrip =>
        /\ EntriesAtLeast(prev.arg) # {} => last.val = SetMin(EntriesAtLeast(prev.arg))
        /\ EntriesAtLeast(prev.arg) = {} => last.val = MHz(28)
        /\ prev.arg = 8000000 => last.val = 8750000
        /\ prev.arg = 30000000 => last.val = 28000000

\* 8,000,000 Hz rounded up to the 8.75 MHz entry
BandwidthRoundingWitness ==
    /\ BandwidthRoundTrip
    /\ prev.arg = 8000000
    /\ last.val = kHz(8750)

(* ---- PLL descriptor: the clamp, band search and divider computation  ---- *)
(* ---- of lms_set_frequency on one frequency, then lms_frequency_to_hz ---- *)

MaxGridSteps == 80
GridStepMHz == 50
MinHalfRefMultiple == 90
MaxHalfRefMultiple == 200

\* the low and the high limit of every band
BandEdges == {bands[i].low : i \in 1..16} \cup {bands[i].high : i \in 1..16}

\* requested frequencies: every band limit with its two neighbours, a grid
\* from 0 Hz to beyond the supported range, and the frequencies 1 Hz below a
\* multiple of half the reference clock
DescriptorFrequencies ==
    BandEdges
    \cup {BigAdd(e, BigOfNat(1)) : e \in BandEdges}
    \cup {BigSub(e, BigOfNat(1)) : e \in BandEdges}
    \cup {Hz(k * GridStepMHz, 0) : k \in 0..MaxGridSteps}
    \cup {BigSub(BigMul(Hz(19, 200000), k), BigOfNat(1)) :
              k \in MinHalfRefMultiple..MaxHalfRefMultiple}

InitDescriptor ==
    /\ env = NominalEnv
    /\ regs = ZeroRegs
    /\ pc = "idle"
    /\ last = NoCall
    /\ prev = [op |-> "none", arg |-> "none", st |-> OK]

ComputeDescriptor ==
    \E freq \in DescriptorFrequencies :
        /\ pc = "idle"
        /\ last' = [NoCall EXCEPT !.op = "FreqDescriptor", !.arg = freq,
                                  !.val = FreqDescriptor(freq)]
        /\ prev' = [op |-> last.op, arg |-> last.arg, st |-> last.st]
        /\ pc' = "computed"
        /\ UNCHANGED <<regs, env>>

FrequencyToHz ==
    /\ pc = "computed"
    /\ last' = [NoCall EXCEPT !.op = "lms_frequency_to_hz", !.arg = last.val,
                              !.val = lms_frequency_to_hz(last.val)]
    /\ prev' = [op |-> last.op, arg |-> last.arg, st |-> last.st]
    /\ pc' = "done"
    /\ UNCHANGED <<regs, env>>

NextDescriptor == ComputeDescriptor \/ FrequencyToHz

SpecDescriptor == InitDescriptor /\ [][NextDescriptor]_vars

\* the indices of the band table entries that contain freq
BandsOf(freq) ==
    {i \in 1..16 : BigLe(bands[i].low, freq) /\ BigLe(freq, bands[i].high)}

InRange(freq) ==
    BigLe(BLADERF_FREQUENCY_MIN, freq) /\ BigLe(freq, BLADERF_FREQUENCY_MAX)

\* the band table is a chain: it starts at the minimum, ends at the maximum,
\* and each entry starts where the one before it ends
BandsContiguous ==
    /\ bands[1].low = BLADERF_FREQUENCY_MIN
    /\ bands[16].high = BLADERF_FREQUENCY_MAX
    /\ \A i \in 1..16 : BigLt(bands[i].low, bands[i].high)
    /\ \A i \in 1..15 : bands[i].high = bands[i + 1].low

\* C21: the band table covers the supported range without a gap; a
\* frequency in the range lies in at least one entry, an interior boundary
\* lies in exactly the two adjacent entries, and the descriptor carries the
\* freqsel of the lowest-indexed entry that contains the clamped frequency.
BandCoverage ==
    last.op = "FreqDescriptor" =>
        LET S == BandsOf(last.val.freq)
        IN  /\ BandsContiguous
            /\ InRange(last.val.freq)
            /\ S # {}
            /\ \A i \in 1..15 : last.val.freq = bands[i].high => S = {i, i + 1}
            /\ \A i \in S : (\A j \in S : i <= j) => last.val.freqsel = bands[i].value

\* an interior boundary resolved to the lower of its two bands
BandCoverageWitness ==
    /\ last.op = "FreqDescriptor"
    /\ last.arg = bands[4].high
    /\ BandsOf(last.val.freq) = {4, 5}
    /\ last.val.freqsel = bands[4].value

\* C22: the nfrac of every descriptor lms_set_frequency computes is below
\* 2^23, so it fits the 23-bit field of the divider registers.
NfracFits == last.op = "FreqDescriptor" => last.val.nfrac < 2 ^ 23

\* |a - b|
BigDist(a, b) == IF BigLt(a, b) THEN BigSub(b, a) ELSE BigSub(a, b)

\* lms_frequency_to_hz applied to the descriptor of a frequency in the
\* supported range
DescriptorRoundTrip ==
    /\ last.op = "lms_frequency_to_hz"
    /\ prev.op = "FreqDescriptor"
    /\ InRange(prev.arg)

\* C23: for a frequency f in the supported range, lms_frequency_to_hz of
\* the descriptor lms_set_frequency computes for f differs from f by at
\* most x * reference / 2^23 Hz.
FrequencyRoundTrip ==
    DescriptorRoundTrip =>
        BigLe(BigDist(last.val, prev.arg),
              BigOfNat((last.arg.x * last.arg.reference) \div (2 ^ 23)))

\* a round trip that does not give the frequency back exactly, on a
\* descriptor whose nfrac is 2^23
FrequencyRoundTripWitness ==
    /\ DescriptorRoundTrip
    /\ last.arg.nfrac = 2 ^ 23
    /\ last.val # prev.arg

(* ---- PLL configuration: a loopback mode is set, then a frequency      ---- *)

MaxTxPll == 6

\* below the range, in the low band, just below and at the band split, in
\* the high band
PllFrequencies ==
    {Hz(100, 0), Hz(915, 123456), Hz(1499, 999999), Hz(1500, 0), Hz(2400, 0)}

\* a tuned chip with any content of the output-buffer bits of 0x15 and 0x25
InitPll ==
    /\ env = NominalEnv
    /\ \E tx \in 0..3, rx \in 0..3 :
          \E r \in {TunedRegs(NominalEnv, Hz(2400, 0))} :
              regs = [r EXCEPT ![21] = 4 * (r[21] \div 4) + tx,
                               ![37] = 4 * (r[37] \div 4) + rx]
    /\ pc = "idle"
    /\ last = NoCall
    /\ prev = [op |-> "none", arg |-> "none", st |-> OK]

SetLoopbackModePll ==
    \E mode \in LoopbackModes :
        /\ pc = "idle"
        /\ \E m0 \in {Machine(regs, env, NoFailure)} :
           \E m \in {lms_set_loopback_mode(m0, mode)} :
              /\ regs' = m.regs
              /\ last' = Call("lms_set_loopback_mode", mode, m0, m)
              /\ prev' = [op |-> last.op, arg |-> last.arg, st |-> last.st]
              /\ pc' = "loopback"
              /\ UNCHANGED env

SetFrequencyPll ==
    \E mod \in {"RX", "TX"}, freq \in PllFrequencies, io \in Failures(MaxTxPll) :
        /\ pc = "loopback"
        /\ \E m0 \in {Machine(regs, env, io)} :
           \E m \in {lms_set_frequency(m0, mod, freq)} :
              /\ regs' = m.regs
              /\ last' = Call("lms_set_frequency", <<mod, freq>>, m0, m)
              /\ prev' = [op |-> last.op, arg |-> last.arg, st |-> last.st]
              /\ pc' = "done"
              /\ UNCHANGED env

NextPll == SetLoopbackModePll \/ SetFrequencyPll

SpecPll == InitPll /\ [][NextPll]_vars

\* the PLL register write_pll_config writes for a module
PllConfigReg(mod) == IF mod = "TX" THEN 21 ELSE 37

\* lms_set_frequency ran after a successful lms_set_loopback_mode and its
\* write of the PLL register succeeded
PllConfigWritten ==
    /\ last.op = "lms_set_frequency"
    /\ prev.op = "lms_set_loopback_mode" /\ prev.st = OK
    /\ \E i \in WritesOf(last, PllConfigReg(last.arg[1])) : last.log[i].st = OK

\* C24: when lms_set_frequency runs with a loopback mode other than None
\* engaged, bits [1:0] of the PLL register keep their value and bits [7:2]
\* become freqsel; with no loopback engaged bits [1:0] become 1 for a
\* frequency below the band split and 2 otherwise.
PllOutputBuffer ==
    PllConfigWritten =>
        LET addr == PllConfigReg(last.arg[1])
            f == FreqDescriptor(last.arg[2])
        IN  /\ regs[addr] \div 4 = f.freqsel
            /\ prev.arg # "BLADERF_LB_NONE" => regs[addr] % 4 = last.pre[addr] % 4
            /\ prev.arg = "BLADERF_LB_NONE" =>
                   regs[addr] % 4 = (IF BigLt(f.freq, BLADERF_BAND_HIGH) THEN 1 ELSE 2)

\* a baseband loopback engaged, output-buffer bits 3 kept, band changed
PllOutputBufferWitness ==
    /\ PllConfigWritten
    /\ prev.arg = "BLADERF_LB_BB_TXLPF_RXVGA2"
    /\ last.pre[PllConfigReg(last.arg[1])] % 4 = 3
    /\ regs[PllConfigReg(last.arg[1])] % 4 = 3
    /\ regs[PllConfigReg(last.arg[1])] \div 4 # last.pre[PllConfigReg(last.arg[1])] \div 4

(* ---- power amplifier selection: any sequence of lms_select_pa,        ---- *)
(* ---- lms_peakdetect_enable and lms_set_loopback_mode calls; pc holds ---- *)
(* ---- the amplifier of the last lms_select_pa the program ran         ---- *)

MaxTxPa == 2

PaSelections == {"PA_AUX", "PA_1", "PA_2", "PA_NONE"}

\* the argument of the last lms_select_pa that a successful
\* lms_set_loopback_mode(mode) runs on the registers r: PA_AUX in loopback_tx
\* for the RF modes, the amplifier of the band of the TX frequency in
\* lms_select_band for BLADERF_LB_NONE, and else PA_NONE of the disconnect
LoopbackPa(r, mode) ==
    IF mode \in {"BLADERF_LB_RF_LNA1", "BLADERF_LB_RF_LNA2", "BLADERF_LB_RF_LNA3"}
        THEN "PA_AUX"
    ELSE IF mode = "BLADERF_LB_NONE"
        THEN LET f == lms_get_frequency(Machine(r, NominalEnv, NoFailure), "TX").val
             IN  IF BigLe(BLADERF_BAND_HIGH, lms_frequency_to_hz(f)) THEN "PA_2" ELSE "PA_1"
    ELSE "PA_NONE"

\* one loopback mode of each kind: none, RF, baseband
PaLoopbackModes ==
    {"BLADERF_LB_NONE", "BLADERF_LB_RF_LNA1", "BLADERF_LB_BB_TXLPF_RXVGA2"}

\* a chip tuned to the low or to the high band; 0x44 holds 0x1c (all three
\* amplifiers on, other bits clear) or 0xff (PA1 and PA2 on, other bits set)
InitPa ==
    /\ env = NominalEnv
    /\ \E freq \in {Hz(915, 0), Hz(2400, 0)}, v \in {28, 255} :
          regs = [TunedRegs(NominalEnv, freq) EXCEPT ![68] = v]
    /\ pc = "unselected"
    /\ last = NoCall
    /\ prev = [op |-> "none", arg |-> "none", st |-> OK]

SelectPa ==
    \E pa \in PaSelections, io \in Failures(MaxTxPa) :
        /\ pc # "failed"
        /\ \E m0 \in {Machine(regs, env, io)} :
           \E m \in {lms_select_pa(m0, pa)} :
              /\ regs' = m.regs
              /\ last' = Call("lms_select_pa", pa, m0, m)
              /\ prev' = [op |-> last.op, arg |-> last.arg, st |-> last.st]
              /\ pc' = IF m.st = OK THEN pa ELSE "failed"
              /\ UNCHANGED env

PeakdetectEnable ==
    \E enable \in BOOLEAN, io \in Failures(MaxTxPa) :
        /\ pc # "failed"
        /\ \E m0 \in {Machine(regs, env, io)} :
           \E m \in {lms_peakdetect_enable(m0, enable)} :
              /\ regs' = m.regs
              /\ last' = Call("lms_peakdetect_enable", enable, m0, m)
              /\ prev' = [op |-> last.op, arg |-> last.arg, st |-> last.st]
              /\ pc' = IF m.st = OK THEN pc ELSE "failed"
              /\ UNCHANGED env

SetLoopbackModePa ==
    \E mode \in PaLoopbackModes, io \in Failures(MaxTxPa) :
        /\ pc # "failed"
        /\ \E m0 \in {Machine(regs, env, io)} :
           \E m \in {lms_set_loopback_mode(m0, mode)} :
              /\ regs' = m.regs
              /\ last' = Call("lms_set_loopback_mode", mode, m0, m)
              /\ prev' = [op |-> last.op, arg |-> last.arg, st |-> last.st]
              /\ pc' = IF m.st = OK THEN LoopbackPa(regs, mode) ELSE "failed"
              /\ UNCHANGED env

NextPa == SelectPa \/ PeakdetectEnable \/ SetLoopbackModePa

SpecPa == InitPa /\ [][NextPa]_vars

\* the amplifiers that are on in a content of 0x44: AUX PA powered up
\* (bit 1 clear), PA1 enabled (bit 3), PA2 enabled (bit 4)
PaOn(v) ==
    {pa \in {"PA_AUX"} : Bit(v, 1) = 0}
    \cup {pa \in {"PA_1"} : Bit(v, 3) = 1}
    \cup {pa \in {"PA_2"} : Bit(v, 4) = 1}

\* C25: once an lms_select_pa has run, after every successful call at most
\* one amplifier is on in 0x44 and it is the one last selected (none for
\* PA_NONE); a successful lms_select_pa changes no bit of 0x44 outside
\* bits [4:1].
PaMutualExclusion ==
    /\ pc \in PaSelections =>
           /\ Cardinality(PaOn(regs[68])) <= 1
           /\ PaOn(regs[68]) = (IF pc = "PA_NONE" THEN {} ELSE {pc})
    /\ (last.op = "lms_select_pa" /\ last.st = OK) =>
           And(regs[68], 225) = And(last.pre[68], 225)

\* PA2 selected, then the peak detector switched, with the other bits of
\* 0x44 set
PaMutualExclusionWitness ==
    /\ pc = "PA_2"
    /\ last.op = "lms_peakdetect_enable" /\ last.st = OK
    /\ prev.op = "lms_select_pa" /\ prev.arg = "PA_2"
    /\ last.pre[68] = 243
    /\ PaOn(regs[68]) = {"PA_2"}

(* ---- stored DC calibration values: lms_set_dc_cals and lms_get_dc_cals ---- *)

enable_lpf_cal_clock(m, enable) ==
    IF enable THEN lms_set(m, 9, 32) ELSE lms_clear(m, 9, 32)

enable_rxvga2_dccal_clock(m, enable) ==
    IF enable THEN lms_set(m, 9, 16) ELSE lms_clear(m, 9, 16)

enable_rxlpf_dccal_clock(m, enable) ==
    IF enable THEN lms_set(m, 9, 8) ELSE lms_clear(m, 9, 8)

enable_txlpf_dccal_clock(m, enable) ==
    IF enable THEN lms_set(m, 9, 2) ELSE lms_clear(m, 9, 2)

\* load address, DC_CNTVAL, DC_LOAD strobe, read of the result register
set_dc_cal_value(m, base, dc_addr, value) ==
    LET regval == Or(8, dc_addr)
    IN  Try(LMS_WRITE(m, base + 3, regval), LAMBDA a :
        Try(LMS_WRITE(a, base + 2, U8(value)), LAMBDA b :
        Try(LMS_WRITE(b, base + 3, Or(regval, 16)), LAMBDA c :
        Try(LMS_WRITE(c, base + 3, regval), LAMBDA d :
        Try(LMS_READ(d, base), LAMBDA e : RetSt(e, OK))))))

\* the load of one field without the test for a negative value
lms_set_dc_cals_field_unguarded(m, base, dc_addr, value) ==
    set_dc_cal_value(m, base, dc_addr, value)

\* if (value >= 0) { status = set_dc_cal_value(...); }
lms_set_dc_cals_field(m, base, dc_addr, value) ==
    IF value >= 0 THEN set_dc_cal_value(m, base, dc_addr, value) ELSE m

lms_set_dc_cals_lpf_tuning(m, dc_cals) ==
    IF dc_cals.lpf_tuning >= 0
    THEN Try(enable_lpf_cal_clock(m, TRUE), LAMBDA a :
         Try(set_dc_cal_value(a, 0, 0, dc_cals.lpf_tuning), LAMBDA b :
             enable_lpf_cal_clock(b, FALSE)))
    ELSE m

lms_set_dc_cals_tx_lpf(m, dc_cals) ==
    IF dc_cals.tx_lpf_i >= 0 \/ dc_cals.tx_lpf_q >= 0
    THEN Try(enable_txlpf_dccal_clock(m, TRUE), LAMBDA a :
         Try(lms_set_dc_cals_field(a, 48, 0, dc_cals.tx_lpf_i), LAMBDA b :
         Try(lms_set_dc_cals_field(b, 48, 1, dc_cals.tx_lpf_q), LAMBDA c :
             enable_txlpf_dccal_clock(c, FALSE))))
    ELSE m

lms_set_dc_cals_rx_lpf(m, dc_cals) ==
    IF dc_cals.rx_lpf_i >= 0 \/ dc_cals.rx_lpf_q >= 0
    THEN Try(enable_rxlpf_dccal_clock(m, TRUE), LAMBDA a :
         Try(lms_set_dc_cals_field(a, 80, 0, dc_cals.rx_lpf_i), LAMBDA b :
         Try(lms_set_dc_cals_field(b, 80, 1, dc_cals.rx_lpf_q), LAMBDA c :
             enable_rxlpf_dccal_clock(c, FALSE))))
    ELSE m

lms_set_dc_cals_rxvga2(m, dc_cals) ==
    IF \/ dc_cals.dc_ref >= 0
       \/ dc_cals.rxvga2a_i >= 0 \/ dc_cals.rxvga2a_q >= 0
       \/ dc_cals.rxvga2b_i >= 0 \/ dc_cals.rxvga2b_q >= 0
    THEN Try(enable_rxvga2_dccal_clock(m, TRUE), LAMBDA a :
         Try(lms_set_dc_cals_field(a, 96, 0, dc_cals.dc_ref), LAMBDA b :
         Try(lms_set_dc_cals_field(b, 96, 1, dc_cals.rxvga2a_i), LAMBDA c :
         Try(lms_set_dc_cals_field(c, 96, 2, dc_cals.rxvga2a_q), LAMBDA d :
         Try(lms_set_dc_cals_field(d, 96, 3, dc_cals.rxvga2b_i), LAMBDA e :
         Try(lms_set_dc_cals_field(e, 96, 4, dc_cals.rxvga2b_q), LAMBDA f :
             enable_rxvga2_dccal_clock(f, FALSE)))))))
    ELSE m

lms_set_dc_cals(m, dc_cals) ==
    Try(lms_set_dc_cals_lpf_tuning(m, dc_cals), LAMBDA a :
    Try(lms_set_dc_cals_tx_lpf(a, dc_cals), LAMBDA b :
    Try(lms_set_dc_cals_rx_lpf(b, dc_cals), LAMBDA c :
    Try(lms_set_dc_cals_rxvga2(c, dc_cals), LAMBDA d : RetSt(d, OK)))))

\* the fields of struct bladerf_lms_dc_cals with the module base address
\* and the submodule address of each
DcCalFields ==
    [lpf_tuning |-> [base |-> 0,  dc_addr |-> 0],
     tx_lpf_i   |-> [base |-> 48, dc_addr |-> 0],
     tx_lpf_q   |-> [base |-> 48, dc_addr |-> 1],
     rx_lpf_i   |-> [base |-> 80, dc_addr |-> 0],
     rx_lpf_q   |-> [base |-> 80, dc_addr |-> 1],
     dc_ref     |-> [base |-> 96, dc_addr |-> 0],
     rxvga2a_i  |-> [base |-> 96, dc_addr |-> 1],
     rxvga2a_q  |-> [base |-> 96, dc_addr |-> 2],
     rxvga2b_i  |-> [base |-> 96, dc_addr |-> 3],
     rxvga2b_q  |-> [base |-> 96, dc_addr |-> 4]]

DcCalFieldNames == DOMAIN DcCalFields

MaxTxSetDcCals == 3

\* the value a field takes when it is not the sentinel: 0, 63 and values
\* in between
DcCalSample ==
    [lpf_tuning |-> 0,  tx_lpf_i |-> 63, tx_lpf_q |-> 1, rx_lpf_i |-> 31,
     rx_lpf_q |-> 32, dc_ref |-> 0, rxvga2a_i |-> 63, rxvga2a_q |-> 17,
     rxvga2b_i |-> 5, rxvga2b_q |-> 42]

\* every choice of the fields that are set; the others hold -1
DcCalsInputs ==
    {[n \in DcCalFieldNames |-> IF n \in S THEN DcCalSample[n] ELSE 0 - 1] :
         S \in SUBSET DcCalFieldNames}

InitSetDcCals ==
    /\ env = NominalEnv
    /\ \E clk \in {0, 255} : regs = [ZeroRegs EXCEPT ![9] = clk]
    /\ pc = "idle"
    /\ last = NoCall
    /\ prev = [op |-> "none", arg |-> "none", st |-> OK]

SetDcCals ==
    \E dc_cals \in DcCalsInputs, io \in Failures(MaxTxSetDcCals) :
        /\ pc = "idle"
        /\ \E m0 \in {Machine(regs, env, io)} :
           \E m \in {lms_set_dc_cals(m0, dc_cals)} :
              /\ regs' = m.regs
              /\ last' = Call("lms_set_dc_cals", dc_cals, m0, m)
              /\ prev' = [op |-> last.op, arg |-> last.arg, st |-> last.st]
              /\ pc' = "done"
              /\ UNCHANGED env

NextSetDcCals == SetDcCals

SpecSetDcCals == InitSetDcCals /\ [][NextSetDcCals]_vars

\* the transactions of a call on the registers base .. base + 3 of a module
ModuleTx(c, base) == {i \in 1..Len(c.log) : c.log[i].a \in base..(base + 3)}

\* the writes of a call that load or strobe the submodule address of a field
LoadWrites(c, n) ==
    {i \in WritesOf(c, DcCalFields[n].base + 3) :
         c.log[i].v \in {8 + DcCalFields[n].dc_addr, 24 + DcCalFields[n].dc_addr}}

\* the module bases none of whose fields is set
IdleModules(dc_cals) ==
    {b \in DcResultRegs :
         \A n \in DcCalFieldNames : DcCalFields[n].base = b => dc_cals[n] < 0}

\* C26: lms_set_dc_cals issues no load sequence for a field that holds -1
\* and no transaction on the registers of a module whose fields all hold
\* -1; without a failed transaction it returns success after two
\* read-modify-writes of 0x09 per module that has a field set, and so with
\* all ten fields -1 it performs no transaction at all.
DcCalSentinel ==
    last.op = "lms_set_dc_cals" =>
        /\ \A n \in DcCalFieldNames : last.arg[n] = 0 - 1 => LoadWrites(last, n) = {}
        /\ \A b \in IdleModules(last.arg) : ModuleTx(last, b) = {}
        /\ FailedTx(last) = {} =>
               /\ last.st = OK
               /\ Cardinality(ReadsOf(last, 9) \cup WritesOf(last, 9))
                      = 4 * (4 - Cardinality(IdleModules(last.arg)))
        /\ IdleModules(last.arg) = DcResultRegs => (last.log = <<>> /\ last.st = OK)

\* one field of the RXVGA2 module set, the other nine -1: one load sequence
DcCalSentinelWitness ==
    /\ last.op = "lms_set_dc_cals" /\ last.st = OK
    /\ {n \in DcCalFieldNames : last.arg[n] >= 0} = {"rxvga2a_q"}
    /\ Len(last.log) = 9
    /\ LoadWrites(last, "rxvga2a_q") # {}
    /\ LoadWrites(last, "dc_ref") = {}

\* "Keep reset inactive, cal disable, load addr", then "Fetch value from
\* DC_REGVAL".  value is the content of *value before the call: a failed
\* write leaves it, a failed read stores -1.
get_dc_cal_value(m, base, dc_addr, value) ==
    TryOut(LMS_WRITE(m, base + 3, Or(8, dc_addr)), value, LAMBDA a :
        Bind(LMS_READ(a, base), LAMBDA r :
            IF r.st # OK THEN Ret(r, r.st, 0 - 1) ELSE Ret(r, OK, r.val)))

\* the fields in the order lms_get_dc_cals fetches them
DcCalFieldOrder ==
    <<"lpf_tuning", "tx_lpf_i", "tx_lpf_q", "rx_lpf_i", "rx_lpf_q",
      "dc_ref", "rxvga2a_i", "rxvga2a_q", "rxvga2b_i", "rxvga2b_q">>

\* one statement of lms_get_dc_cals: field number m.val.i + 1 is fetched
\* into dc_cals, unless a field before it failed
lms_get_dc_cals_field(m) ==
    IF m.st # OK THEN m
    ELSE Bind(DcCalFieldOrder[m.val.i + 1], LAMBDA n :
         Bind(get_dc_cal_value(m, DcCalFields[n].base, DcCalFields[n].dc_addr,
                               m.val.dc_cals[n]), LAMBDA g :
             Ret(g, g.st, [i |-> m.val.i + 1,
                           dc_cals |-> [m.val.dc_cals EXCEPT ![n] = g.val]])))

\* dc_cals is the content of the caller's structure before the call
lms_get_dc_cals(m, dc_cals) ==
    Bind(While(Ret(m, OK, [i |-> 0, dc_cals |-> dc_cals]), lms_get_dc_cals_field, 10),
         LAMBDA r : Ret(r, r.st, r.val.dc_cals))

MaxTxGetDcCals == 20

\* chips whose DC result registers read as 0, 20, 63, 64 or 255
GetDcCalsEnvs == {[NominalEnv EXCEPT !.dcVal = v] : v \in {0, 20, 63, 64, 255}}

InitGetDcCals ==
    /\ env \in GetDcCalsEnvs
    /\ regs = ZeroRegs
    /\ pc = "idle"
    /\ last = NoCall
    /\ prev = [op |-> "none", arg |-> "none", st |-> OK]

GetDcCals ==
    \E v \in {0 - 1, 7}, io \in Failures(MaxTxGetDcCals) :
        /\ pc = "idle"
        /\ \E m0 \in {Machine(regs, env, io)} :
           \E m \in {lms_get_dc_cals(m0, [n \in DcCalFieldNames |-> v])} :
              /\ regs' = m.regs
              /\ last' = Call("lms_get_dc_cals", v, m0, m)
              /\ prev' = [op |-> last.op, arg |-> last.arg, st |-> last.st]
              /\ pc' = "done"
              /\ UNCHANGED env

NextGetDcCals == GetDcCals

SpecGetDcCals == InitGetDcCals /\ [][NextGetDcCals]_vars

\* the read of the result register for field number k of a call failed
FieldReadFailed(c, k) ==
    /\ Len(c.log) >= 2 * k
    /\ c.log[2 * k].k = "R"
    /\ c.log[2 * k].st # OK

\* a field holds -1 after the call only if it held -1 before or its read
\* failed
SentinelOnlyOnFailedRead ==
    last.op = "lms_get_dc_cals" =>
        \A k \in 1..10 :
            (last.val[DcCalFieldOrder[k]] = 0 - 1 /\ last.arg # 0 - 1)
                => FieldReadFailed(last, k)

\* C27: every value a successful lms_get_dc_cals stores lies in 0..63,
\* whatever the DC result registers hold, and -1 appears only for a field
\* whose register read failed.
DcCalValueRange ==
    /\ (last.op = "lms_get_dc_cals" /\ last.st = OK) =>
           \A n \in DcCalFieldNames : last.val[n] \in 0..63
    /\ SentinelOnlyOnFailedRead

(* ---- two callers: one runs lms_rx_enable, the other lms_tx_enable, on ---- *)
(* ---- the same device, one register transaction at a time             ---- *)

\* the new content of 0x05: bit 2 enables the RX subsystem
lms_rx_enable_data(data, enable) == IF enable THEN Or(data, 4) ELSE Clear(data, 4)

\* the new content of 0x05: bit 3 enables the TX subsystem
lms_tx_enable_data(data, enable) == IF enable THEN Or(data, 8) ELSE Clear(data, 8)

lms_rx_enable(m, enable) ==
    Try(LMS_READ(m, 5), LAMBDA r : LMS_WRITE(r, 5, lms_rx_enable_data(r.val, enable)))

lms_tx_enable(m, enable) ==
    Try(LMS_READ(m, 5), LAMBDA r : LMS_WRITE(r, 5, lms_tx_enable_data(r.val, enable)))

Threads == {"rx", "tx"}

\* a caller that never takes the lock
MayEnterUnlocked(lock, t) == TRUE

\* The caller's lock: "none" when the callers use no lock, else "free" or the
\* thread that holds it.  A caller enters its operation when it uses no lock
\* or takes the free lock.
MayEnter(lock, t) == lock \in {"none", "free"}

MaxTxEnable == 2

\* pc holds the position of each caller and the lock, last the machine each
\* caller runs on (its local data and status), prev the arguments and the
\* registers at the start
InitThreads ==
    /\ env = NominalEnv
    /\ \E v \in {0, 4, 8, 243} : regs = [ZeroRegs EXCEPT ![5] = v]
    /\ \E lock \in {"none", "free"} : pc = [rx |-> "start", tx |-> "start", lock |-> lock]
    /\ \E io_rx \in Failures(MaxTxEnable), io_tx \in Failures(MaxTxEnable) :
           last = [rx |-> Machine(regs, env, io_rx), tx |-> Machine(regs, env, io_tx)]
    /\ \E enable_rx \in BOOLEAN, enable_tx \in BOOLEAN :
           prev = [rx |-> enable_rx, tx |-> enable_tx, regs |-> regs]

\* a caller starts its operation, taking the lock if the callers use one
Enter(t) ==
    /\ pc[t] = "start"
    /\ MayEnter(pc.lock, t)
    /\ pc' = [pc EXCEPT ![t] = "read", !.lock = IF @ = "none" THEN "none" ELSE t]
    /\ UNCHANGED <<regs, env, last, prev>>

\* status = LMS_READ(dev, 0x05, &data): the operation ends here when the
\* read fails
ReadStep(t) ==
    /\ pc[t] = "read"
    /\ \E m \in {LMS_READ([last[t] EXCEPT !.regs = regs], 5)} :
          /\ last' = [last EXCEPT ![t] = m]
          /\ pc' = IF m.st = OK THEN [pc EXCEPT ![t] = "write"]
                   ELSE [pc EXCEPT ![t] = "done",
                                   !.lock = IF @ = "none" THEN "none" ELSE "free"]
          /\ regs' = m.regs
    /\ UNCHANGED <<env, prev>>

\* status = LMS_WRITE(dev, 0x05, data), with the data read earlier
WriteStep(t) ==
    /\ pc[t] = "write"
    /\ \E data \in {IF t = "rx" THEN lms_rx_enable_data(last[t].val, prev[t])
                    ELSE lms_tx_enable_data(last[t].val, prev[t])} :
       \E m \in {LMS_WRITE([last[t] EXCEPT !.regs = regs], 5, data)} :
          /\ last' = [last EXCEPT ![t] = m]
          /\ regs' = m.regs
    /\ pc' = [pc EXCEPT ![t] = "done", !.lock = IF @ = "none" THEN "none" ELSE "free"]
    /\ UNCHANGED <<env, prev>>

NextThreads == \E t \in Threads : Enter(t) \/ ReadStep(t) \/ WriteStep(t)

SpecThreads == InitThreads /\ [][NextThreads]_vars

\* the registers and the two statuses when both operations have returned
ThreadsDone == pc.rx = "done" /\ pc.tx = "done"
Outcome == [regs |-> regs, rx |-> last.rx.st, tx |-> last.tx.st]

\* the outcomes of the two serial orders, with the failures each caller meets
SerialOutcomes ==
    LET rx0 == Machine(prev.regs, env, last.rx.io)
        tx0 == Machine(prev.regs, env, last.tx.io)
        rx1 == lms_rx_enable(rx0, prev.rx)
        tx2 == lms_tx_enable([tx0 EXCEPT !.regs = rx1.regs], prev.tx)
        tx1 == lms_tx_enable(tx0, prev.tx)
        rx2 == lms_rx_enable([rx0 EXCEPT !.regs = tx1.regs], prev.rx)
    IN  {[regs |-> tx2.regs, rx |-> rx1.st, tx |-> tx2.st],
         [regs |-> rx2.regs, rx |-> rx2.st, tx |-> tx1.st]}

\* the outcome in which the write of caller t is undone by the other
\* caller, who writes back the bit of t as it read it at the start
LostUpdate(t) ==
    LET other == IF t = "rx" THEN "tx" ELSE "rx"
        alone == IF other = "rx"
                 THEN lms_rx_enable(Machine(prev.regs, env, NoFailure), prev.rx)
                 ELSE lms_tx_enable(Machine(prev.regs, env, NoFailure), prev.tx)
    IN  [regs |-> alone.regs, rx |-> OK, tx |-> OK]

\* C28: with the lock held by each caller for its whole operation every
\* final state is the result of one of the two serial orders; without a
\* lock a final state that no serial order produces is reachable, and it is
\* one in which both calls report success and the update of one is lost.
SerializationRequired ==
    ThreadsDone =>
        /\ pc.lock # "none" => Outcome \in SerialOutcomes
        /\ Outcome \notin SerialOutcomes =>
               Outcome \in {LostUpdate("rx"), LostUpdate("tx")}

\* both callers enable their subsystem without a lock and the RX enable is
\* lost: an outcome of no serial order
SerializationRequiredWitness ==
    /\ ThreadsDone
    /\ pc.lock = "none"
    /\ prev.rx /\ prev.tx /\ prev.regs[5] = 0
    /\ last.rx.st = OK /\ last.tx.st = OK
    /\ regs[5] = 8
    /\ Outcome \notin SerialOutcomes

\* the registers only tune_vcocap touches during lms_set_frequency on a
\* module: VCOCAP (base + 9) and VTUNE (base + 10)
TuneRegs(mod) == IF mod = "RX" THEN {41, 42} ELSE {25, 26}

\* the first failed register transaction of a call, 0 when none failed
FirstFailedTx(c) ==
    IF FailedTx(c) = {} THEN 0
    ELSE CHOOSE i \in FailedTx(c) : \A j \in FailedTx(c) : i <= j

\* the first failed transaction of lms_set_frequency is one of tune_vcocap
TuneIoFailure ==
    /\ last.op = "lms_set_frequency"
    /\ FirstFailedTx(last) # 0
    /\ last.log[FirstFailedTx(last)].a \in TuneRegs(last.arg[1])

\* C29: when a register transaction of tune_vcocap fails, tune_vcocap
\* returns that error without another transaction, and lms_set_frequency
\* performs only the read-modify-write of 0x09 that disables the
\* modulators and returns the same error.
TuneAbortsOnIoFailure ==
    TuneIoFailure =>
        LET i == FirstFailedTx(last)
        IN  /\ StepStatus(last, "tune_vcocap") = last.log[i].st
            /\ last.st = last.log[i].st
            /\ \A j \in (i + 1)..Len(last.log) : last.log[j].a = 9
            /\ Len(last.log) <= i + 2
            /\ EndsWithDsmDisable(last)

\* the write of VCOCAP in the downward scan failed; the two transactions on
\* 0x09 followed and the modulators are off
TuneAbortsOnIoFailureWitness ==
    /\ TuneIoFailure
    /\ FirstFailedTx(last) > 19
    /\ last.log[FirstFailedTx(last)].k = "W"
    /\ Len(last.log) = FirstFailedTx(last) + 2
    /\ last.st = BLADERF_ERR_IO
    /\ And(regs[9], 5) = 0

(* ---- Submodule ordering of lms_calibrate_dc, read off the transport ---- *)
(* ---- log of a call on SpecCal                                       ---- *)

\* the DC_CNTVAL registers: lms_dc_cal_loop writes one once per run, right
\* after it has loaded the submodule address into the control register
DcCntvalRegs == {a - 1 : a \in DcControlRegs}

\* the log positions at which a run of lms_dc_cal_loop latches DC_CNTVAL
LoopStarts(c) ==
    {k \in 2..Len(c.log) : c.log[k].k = "W" /\ c.log[k].a \in DcCntvalRegs}

\* cal_address of the run that starts at k: the address field of the control
\* register written just before
SubmoduleAt(c, k) == c.log[k - 1].v % 8

\* the writes of dc_cal_retry_adjustment (RXVGA1 0x76, RXVGA2 0x65); the
\* ones of dc_cal_module_init precede, the ones of dc_cal_restore follow,
\* every run
GainWrites(c) ==
    {k \in 1..Len(c.log) : c.log[k].k = "W" /\ c.log[k].a \in {118, 101}}

ConsecutiveStarts(c, j, k) ==
    /\ j \in LoopStarts(c) /\ k \in LoopStarts(c) /\ j < k
    /\ ~ \E i \in LoopStarts(c) : j < i /\ i < k

SameAttempt(c, j, k) == ~ \E b \in GainWrites(c) : j < b /\ b < k

\* DC_REGVAL as the run between j and k read it; -1 when it read none
RegvalBetween(c, j, k) ==
    LET reads == {i \in (j + 1)..(k - 1) :
                     c.log[i].k = "R" /\ c.log[i].a = c.log[j].a - 2
                                      /\ c.log[i].st = OK}
    IN  IF reads = {} THEN 0 - 1 ELSE c.log[CHOOSE i \in reads : TRUE].v % 64

\* the run that starts at j is the re-run with DC_CNTVAL 0 and yields 0:
\* its submodule has not converged
NotConverged(c, j, k) == c.log[j].v = 0 /\ RegvalBetween(c, j, k) = 0

\* submodule 0 of RXVGA2 has cleared the decode bit of 0x64 and written 1
\* to 0x68 right before the run that starts at k
Rxvga2Reinitialised(c, k) ==
    /\ k > 4
    /\ c.log[k - 3] = [k |-> "W", a |-> 104, v |-> 1, st |-> OK]
    /\ c.log[k - 4].k = "W" /\ c.log[k - 4].a = 100 /\ c.log[k - 4].st = OK
    /\ c.log[k - 4].v % 2 = 0

\* C30: within each module attempt of lms_calibrate_dc the submodules run in
\* increasing index order starting at 0; after a submodule that fails to
\* converge or returns an error no further submodule runs in that attempt;
\* every retry attempt starts again at submodule 0, and for RXVGA2 that
\* submodule first clears the decode bit of 0x64 and writes 1 to 0x68.
SubmoduleOrder ==
    last.op = "lms_calibrate_dc" =>
        \A k \in LoopStarts(last) :
            \* an error ends the module attempt and the retries
            /\ \A i \in 1..(k - 1) : last.log[i].st = OK
            /\ (\A j \in LoopStarts(last) : j >= k) => SubmoduleAt(last, k) = 0
            /\ \A j \in LoopStarts(last) : ConsecutiveStarts(last, j, k) =>
                  /\ RegvalBetween(last, j, k) >= 0
                  /\ IF SameAttempt(last, j, k)
                     THEN /\ ~NotConverged(last, j, k)
                          /\ \/ /\ SubmoduleAt(last, k) = SubmoduleAt(last, j)
                                /\ last.log[j].v = 31 /\ last.log[k].v = 0
                                /\ RegvalBetween(last, j, k) = 31
                             \/ /\ SubmoduleAt(last, k) = SubmoduleAt(last, j) + 1
                                /\ last.log[k].v = 31
                     ELSE /\ SubmoduleAt(last, k) = 0
                          /\ last.log[k].v = 31
            /\ (/\ last.arg = "BLADERF_DC_CAL_RXVGA2"
                /\ SubmoduleAt(last, k) = 0
                /\ last.log[k].v = 31) => Rxvga2Reinitialised(last, k)

\* an RXVGA2 calibration whose first attempt stopped at a submodule that did
\* not converge and whose retry attempt ran submodules 0 to 4 to the end
SubmoduleOrderWitness ==
    /\ last.op = "lms_calibrate_dc"
    /\ last.arg = "BLADERF_DC_CAL_RXVGA2"
    /\ last.st = OK
    /\ Attempts(last) >= 2
    /\ \E j, k \in LoopStarts(last) :
          /\ ConsecutiveStarts(last, j, k)
          /\ ~SameAttempt(last, j, k)
          /\ last.log[j].v = 0
          /\ Rxvga2Reinitialised(last, k)
    /\ \E k \in LoopStarts(last) : SubmoduleAt(last, k) = 4

(* ---- The retry loop of lms_calibrate_dc, one step per function it   ---- *)
(* ---- calls: dc_cal_backup and dc_cal_module_init, then              ---- *)
(* ---- dc_cal_module and dc_cal_retry_adjustment in turn              ---- *)

MaxTxRetry == 3

RetryEnvs ==
    {NominalEnv,
     [NominalEnv EXCEPT !.dcStuck = TRUE],
     [NominalEnv EXCEPT !.dcMaxVga1Code = rxvga1_lut_val2code[28 + 1]],
     [NominalEnv EXCEPT !.dcMaxVga2Code = 8]}

RetryRegs ==
    {[ZeroRegs EXCEPT ![9] = 5, ![113] = 128, ![117] = lna * 64,
                      ![118] = vga1, ![101] = vga2] :
        lna \in {2}, vga1 \in {2, 102}, vga2 \in {3}}

InitRetry ==
    /\ regs \in RetryRegs
    /\ env \in RetryEnvs
    /\ pc = "idle"
    /\ last = NoCall
    /\ prev = [module |-> "none", state |-> DcCalState0, before |-> DcCalState0]

\* dc_cal_backup and dc_cal_module_init, as lms_calibrate_dc calls them
ModuleInit ==
    \E module \in CalModules, io \in Failures(MaxTxRetry) :
        /\ pc = "idle"
        /\ \E m0 \in {Machine(regs, env, io)} :
           \E m \in {Try(dc_cal_backup(m0, module), LAMBDA b :
                         dc_cal_module_init(b, module, b.val))} :
              /\ regs' = m.regs
              /\ last' = Call("dc_cal_module_init", module, m0, m)
              /\ prev' = [module |-> module, state |-> m.val, before |-> m.val]
              /\ pc' = IF m.st = OK THEN "attempt" ELSE "done"
              /\ UNCHANGED env

\* status = dc_cal_module(dev, module, &state, &converged)
ModuleAttempt ==
    \E io \in Failures(MaxTxRetry) :
        /\ pc = "attempt"
        /\ \E m0 \in {Machine(regs, env, io)} :
           \E m \in {dc_cal_module(m0, prev.module, prev.state)} :
              /\ regs' = m.regs
              /\ last' = Call("dc_cal_module", prev.module, m0, m)
              /\ pc' = IF m.st = OK /\ ~m.val THEN "adjust" ELSE "done"
              /\ UNCHANGED <<env, prev>>

\* status = dc_cal_retry_adjustment(dev, module, &state, &limit_reached)
RetryAdjustment ==
    \E io \in Failures(MaxTxRetry) :
        /\ pc = "adjust"
        /\ \E m0 \in {Machine(regs, env, io)} :
           \E m \in {dc_cal_retry_adjustment(m0, prev.module, prev.state, FALSE)} :
              /\ regs' = m.regs
              /\ last' = Call("dc_cal_retry_adjustment", prev.module, m0, m)
              /\ prev' = [prev EXCEPT !.state = m.val.state, !.before = prev.state]
              /\ pc' = IF m.st = OK /\ ~m.val.limit_reached THEN "attempt" ELSE "done"
              /\ UNCHANGED env

NextRetry == ModuleInit \/ ModuleAttempt \/ RetryAdjustment

SpecRetry == InitRetry /\ [][NextRetry]_vars

\* the values of the writes of the last call to a register, failed ones too
IssuedTo(c, a) ==
    {c.log[i].v : i \in {k \in 1..Len(c.log) : c.log[k].k = "W" /\ c.log[k].a = a}}

\* the retry adjustment lowers RXVGA1 by 1 dB while it is above its minimum,
\* and RXVGA2 by 3 dB, for BLADERF_DC_CAL_RXVGA2 only, once RXVGA1 is at it
RetryLowersGains ==
    LET b == prev.before
        s == prev.state
    IN  /\ b.rxvga1_curr_gain > BLADERF_RXVGA1_GAIN_MIN =>
              /\ s.rxvga1_curr_gain = b.rxvga1_curr_gain - 1
              /\ s.rxvga2_curr_gain = b.rxvga2_curr_gain
        /\ b.rxvga1_curr_gain <= BLADERF_RXVGA1_GAIN_MIN =>
              /\ s.rxvga1_curr_gain = b.rxvga1_curr_gain
              /\ s.rxvga2_curr_gain =
                    IF prev.module = "BLADERF_DC_CAL_RXVGA2"
                       /\ b.rxvga2_curr_gain > BLADERF_RXVGA2_GAIN_MIN
                    THEN b.rxvga2_curr_gain - 3 ELSE b.rxvga2_curr_gain
        \* what the adjustment wrote is the lowered gain
        /\ IssuedTo(last, 118) \subseteq {rxvga1_lut_val2code[s.rxvga1_curr_gain + 1]}
        /\ IssuedTo(last, 101) \subseteq {s.rxvga2_curr_gain \div 3}
        /\ (IssuedTo(last, 118) # {}) = (s.rxvga1_curr_gain # b.rxvga1_curr_gain)
        /\ (IssuedTo(last, 101) # {}) = (s.rxvga2_curr_gain # b.rxvga2_curr_gain)

\* C31: after a non-converged attempt RX_LPF and RXVGA2 lower the tracked
\* RXVGA1 gain by exactly 1 dB while it is above its minimum, RXVGA2 lowers
\* the tracked RXVGA2 gain by exactly 3 dB only once RXVGA1 is at its
\* minimum; the first attempt runs with the LNA at maximum and both VGAs at
\* 30 dB; the tracked RXVGA1 gain stays in 5..30, the tracked RXVGA2 gain in
\* {0, 3, .., 30}, and each tracked gain is the gain last written to its
\* register.
RetryAdjustmentGains ==
    prev.module \in RxCalModules =>
        /\ last.op = "dc_cal_retry_adjustment" => RetryLowersGains
        /\ (last.op = "dc_cal_module_init" /\ last.st = OK) =>
              /\ prev.state.rxvga1_curr_gain = 30
              /\ prev.state.rxvga2_curr_gain = 30
              /\ GainsOf(regs) = <<BLADERF_LNA_GAIN_MAX, 30, 30>>
        /\ pc \in {"attempt", "adjust"} =>
              /\ prev.state.rxvga1_curr_gain \in 5..30
              /\ prev.state.rxvga2_curr_gain \in {3 * n : n \in 0..10}
              /\ GainsOf(regs)[2] = prev.state.rxvga1_curr_gain
              /\ GainsOf(regs)[3] = prev.state.rxvga2_curr_gain
              /\ GainsOf(regs)[1] = BLADERF_LNA_GAIN_MAX

\* an RXVGA2 calibration that has lowered RXVGA1 to its minimum and then
\* RXVGA2 by 3 dB, and goes on to the next attempt
RetryAdjustmentGainsWitness ==
    /\ last.op = "dc_cal_retry_adjustment"
    /\ prev.module = "BLADERF_DC_CAL_RXVGA2"
    /\ pc = "attempt"
    /\ prev.before.rxvga1_curr_gain = 5
    /\ prev.before.rxvga2_curr_gain = 30
    /\ prev.state.rxvga2_curr_gain = 27
    /\ regs[101] = 9

\* DC_REGVAL of the last low-level loop of a call of dc_cal_submodule
FinalLoopValue(c) == LoopValue(c, Cardinality(ReadsOf(c, c.arg.base)))

\* C32: when the LPF_TUNING submodule converges to the value v, v is written
\* to bits [5:0] of both 0x35 (TX LPF) and 0x55 (RX LPF) while bits [7:6] of
\* both keep their previous values; for the other three modules the
\* submodule step writes neither 0x35 nor 0x55.
LpfTuningPropagation ==
    last.op = "dc_cal_submodule" =>
        IF last.arg.module = "BLADERF_DC_CAL_LPF_TUNING"
        THEN (last.st = OK /\ last.val = TRUE) =>
                 /\ regs[53] = 64 * (last.pre[53] \div 64) + FinalLoopValue(last)
                 /\ regs[85] = 64 * (last.pre[85] \div 64) + FinalLoopValue(last)
                 /\ Cardinality(WritesOf(last, 53)) = 1
                 /\ Cardinality(WritesOf(last, 85)) = 1
        ELSE /\ WritesOf(last, 53) \cup WritesOf(last, 85) = {}
             /\ regs[53] = last.pre[53]
             /\ regs[85] = last.pre[85]

\* the tuning module has converged to 20 on a chip whose 0x35 and 0x55 held
\* 01 in bits [7:6] and another value below
LpfTuningPropagationWitness ==
    /\ last.op = "dc_cal_submodule"
    /\ last.arg.module = "BLADERF_DC_CAL_LPF_TUNING"
    /\ last.st = OK /\ last.val = TRUE
    /\ last.pre[53] = 64 + 21
    /\ FinalLoopValue(last) = 20
    /\ regs[53] = 64 + 20 /\ regs[85] = 64 + 20

(* ---- PA and LNA selection across loopback transitions: up to two    ---- *)
(* ---- lms_set_loopback_mode calls on a chip whose RX and TX PLLs are ---- *)
(* ---- tuned on either side of, and at, the band split                ---- *)

MaxTxBand == 2

BandFrequencies == {Hz(915, 0), Hz(1499, 999999), Hz(1500, 0), Hz(2400, 0)}

\* the registers after lms_set_frequency on RX and on TX
TunedTo(e, rx, tx) ==
    Bind(lms_set_frequency(Machine(ZeroRegs, e, NoFailure), "RX", rx), LAMBDA r :
         lms_set_frequency(r, "TX", tx)).regs

InitBand ==
    /\ env = NominalEnv
    /\ \E rx \in BandFrequencies, tx \in BandFrequencies :
           regs = TunedTo(NominalEnv, rx, tx)
    /\ pc = "idle"
    /\ last = NoCall
    /\ prev = [op |-> "none", arg |-> "none", st |-> OK]

SetLoopbackModeBand ==
    \E mode \in LoopbackModes, io \in Failures(MaxTxBand) :
        /\ pc \in {"idle", "loopback"}
        /\ \E m0 \in {Machine(regs, env, io)} :
           \E m \in {lms_set_loopback_mode(m0, mode)} :
              /\ regs' = m.regs
              /\ last' = Call("lms_set_loopback_mode", mode, m0, m)
              /\ prev' = [op |-> last.op, arg |-> last.arg, st |-> last.st]
              /\ pc' = IF m.st # OK \/ pc = "loopback" THEN "done" ELSE "loopback"
              /\ UNCHANGED env

NextBand == SetLoopbackModeBand

SpecBand == InitBand /\ [][NextBand]_vars

\* the frequency the PLL registers of a module hold
ProgrammedHz(r, mod) ==
    lms_frequency_to_hz(lms_get_frequency(Machine(r, NominalEnv, NoFailure), mod).val)

\* LNASEL_RXFE, 0x75[5:4]
LnaSelected(r) == (r[117] \div 16) % 4

RfLoopbackLna(mode) ==
    CASE mode = "BLADERF_LB_RF_LNA1" -> LNA_1
      [] mode = "BLADERF_LB_RF_LNA2" -> LNA_2
      [] mode = "BLADERF_LB_RF_LNA3" -> LNA_3

\* C33: after a successful lms_set_loopback_mode(m), for an RF variant LNAn
\* the AUX PA is powered up with PA1 and PA2 disabled and the LNA selection
\* is n; for a baseband variant no PA and no LNA is selected; for None the
\* PA is PA1 or PA2 and the LNA is LNA1 or LNA2 according to whether the
\* programmed TX (resp. RX) frequency is below or at/above the band split,
\* and the RX PLL output-buffer bits are derived from the RX frequency.
LoopbackBandSelection ==
    (last.op = "lms_set_loopback_mode" /\ last.st = OK) =>
        LET rxHigh == BigLe(BLADERF_BAND_HIGH, ProgrammedHz(regs, "RX"))
            txHigh == BigLe(BLADERF_BAND_HIGH, ProgrammedHz(regs, "TX"))
        IN  IF last.arg \in {"BLADERF_LB_RF_LNA1", "BLADERF_LB_RF_LNA2",
                             "BLADERF_LB_RF_LNA3"}
            THEN /\ PaOn(regs[68]) = {"PA_AUX"}
                 /\ LnaSelected(regs) = RfLoopbackLna(last.arg)
            ELSE IF last.arg = "BLADERF_LB_NONE"
            THEN /\ PaOn(regs[68]) = {IF txHigh THEN "PA_2" ELSE "PA_1"}
                 /\ LnaSelected(regs) = (IF rxHigh THEN LNA_2 ELSE LNA_1)
                 /\ regs[37] % 4 = (IF rxHigh THEN 2 ELSE 1)
            ELSE /\ PaOn(regs[68]) = {}
                 /\ LnaSelected(regs) = LNA_NONE

\* loopback left from an RF variant with TX at the band split and RX just
\* below it: PA2 and LNA1
LoopbackBandSelectionWitness ==
    /\ last.op = "lms_set_loopback_mode" /\ last.st = OK
    /\ last.arg = "BLADERF_LB_NONE"
    /\ prev.op = "lms_set_loopback_mode" /\ prev.arg = "BLADERF_LB_RF_LNA3"
    /\ ProgrammedHz(regs, "TX") = Hz(1500, 0)
    /\ BigLt(ProgrammedHz(regs, "RX"), BLADERF_BAND_HIGH)
    /\ BigLt(Hz(1499, 0), ProgrammedHz(regs, "RX"))
    /\ PaOn(regs[68]) = {"PA_2"}
    /\ LnaSelected(regs) = LNA_1

(* ---- VCO tuning on a PLL whose tune status may also read the value  ---- *)
(* ---- that is none of Low, Normal, High                              ---- *)

MaxTxVtune == 3

\* lock ranges at the ends of, and inside, the 6-bit code range
VtuneEdges == {0, 1, 20, 31, 32, 33, 47, 63}

\* codes for which both comparators read 1
VtuneBadCodes == {{}, {32}, {16, 48}, {1, 63}}

InitVtune ==
    /\ \E a \in VtuneEdges, b \in VtuneEdges, bad \in VtuneBadCodes :
           a <= b /\ env = [NominalEnv EXCEPT !.vlo = a, !.vhi = b, !.vbad = bad]
    /\ \E r25 \in {5, 128 + 5, 255} :
           regs = [ZeroRegs EXCEPT ![25] = r25, ![41] = 64 + 63]
    /\ pc = "idle"
    /\ last = NoCall
    /\ prev = [op |-> "none", arg |-> "none", st |-> OK]

TuneVcocapStatus ==
    \E base \in {16, 32}, io \in Failures(MaxTxVtune) :
        /\ pc = "idle"
        /\ \E m0 \in {Machine(regs, env, io)} :
           \E m \in {tune_vcocap(m0, base)} :
              /\ regs' = m.regs
              /\ last' = Call("tune_vcocap", base, m0, m)
              /\ prev' = [op |-> last.op, arg |-> last.arg, st |-> last.st]
              /\ pc' = "done"
              /\ UNCHANGED env

NextVtune == TuneVcocapStatus

SpecVtune == InitVtune /\ [][NextVtune]_vars

\* the tune status read after the write at position i of the log; -1 when
\* the write or the read failed
TuneStatusAt(c, i) ==
    IF c.log[i].st = OK /\ i < Len(c.log) /\ c.log[i + 1].st = OK
    THEN c.log[i + 1].v \div 64 ELSE 0 - 1

\* the number of VCOCAP writes of phase A: up to the first one that is
\* answered Normal, all of them when none is
PhaseAWrites(c) ==
    LET W == WritesOf(c, c.arg + 9)
        N == {i \in W : TuneStatusAt(c, i) = VCO_NORM}
    IN  IF N = {} THEN Cardinality(W)
        ELSE Cardinality({i \in W : \A j \in N : i <= j})

\* C34: starting at trim code 32 with step 16, halved after every iteration,
\* tune_vcocap performs at most 6 write/read iterations in phase A, adds
\* the step on High and subtracts it on Low, stops at the first Normal,
\* returns BLADERF_ERR_UNEXPECTED when the status is not Normal after the
\* 6th iteration and at once on a status that is none of Low, Normal, High;
\* every trim code written in phase A lies in 1..63.
CoarseSearch ==
    last.op = "tune_vcocap" =>
        LET W == WritesOf(last, last.arg + 9)
            n == PhaseAWrites(last)
        IN  /\ n <= 6
            /\ \A k \in 1..n :
                  LET i == Nth(W, k)
                      code == last.log[i].v % 64
                      s == TuneStatusAt(last, i)
                  IN  /\ code \in 1..63
                      /\ k = 1 => code = 32
                      /\ k < n =>
                            /\ s \in {VCO_HIGH, VCO_LOW}
                            /\ last.log[Nth(W, k + 1)].v % 64 =
                                  (IF s = VCO_HIGH THEN code + 2 ^ (5 - k)
                                   ELSE code - 2 ^ (5 - k))
                      /\ (s = 3 \/ (k = 6 /\ s \in {VCO_HIGH, VCO_LOW})) =>
                            /\ last.st = BLADERF_ERR_UNEXPECTED
                            /\ Len(last.log) = i + 1
                      \* after the first Normal the downward scan starts
                      /\ s = VCO_NORM =>
                            /\ Len(last.log) >= i + 2
                            /\ last.log[i + 2].k = "W"
                            /\ last.log[i + 2].a = last.arg + 9
                            /\ last.log[i + 2].v % 64 = code - 1

\* six iterations that end on code 1 with the status still Low
CoarseSearchWitness ==
    /\ last.op = "tune_vcocap"
    /\ last.st = BLADERF_ERR_UNEXPECTED
    /\ PhaseAWrites(last) = 6
    /\ Len(last.log) = 13
    /\ last.log[12].v % 64 = 1
    /\ TuneStatusAt(last, 12) = VCO_LOW

\* a status that is none of Low, Normal, High at the second iteration
CoarseSearchInvalidStatus ==
    /\ last.op = "tune_vcocap"
    /\ last.st = BLADERF_ERR_UNEXPECTED
    /\ PhaseAWrites(last) = 2
    /\ Len(last.log) = 5
    /\ TuneStatusAt(last, 4) = 3

\* C35: every value tune_vcocap writes to the VCOCAP register (base + 9), in
\* every phase, carries a trim code of 0..63 in its low 6 bits and, in bits
\* [7:6], the value those bits had when the tuning started.
VcocapFieldPreserved ==
    last.op = "tune_vcocap" =>
        \A i \in WritesOf(last, last.arg + 9) :
            /\ last.log[i].v \in 0..255
            /\ last.log[i].v \div 64 = last.pre[last.arg + 9] \div 64

\* the offsets from the PLL base, in the order lms_set_frequency writes
\* them: band and output buffer, the four divider registers, the three
\* charge pump registers, VCOCAP
ProgramOrder == <<5, 0, 1, 2, 3, 6, 7, 8, 9>>

\* the values lms_set_frequency writes to the divider registers base + 0..3
DividerBytes(f) ==
    <<(f.nint \div 2) % 256,
      ((f.nint % 2) * 128) + ((f.nfrac \div 65536) % 128),
      (f.nfrac \div 256) % 256,
      f.nfrac % 256>>

\* C36: lms_set_frequency writes the PLL band/output-buffer register and
\* the divider registers only after the write that sets both DSM bits of
\* 0x09 has succeeded; the dividers are written in the order base + 0
\* (nint >> 1), base + 1 ((nint & 1) << 7 | nfrac[22:16]), base + 2
\* (nfrac[15:8]), base + 3 (nfrac[7:0]), then the charge pump registers,
\* then the VCO tuning, then the DSM disable; when the DSM enable fails
\* nothing else is written.
SetFrequencyOrder ==
    last.op = "lms_set_frequency" =>
        LET ws == WriteSeq(last)
            base == IF last.arg[1] = "RX" THEN 32 ELSE 16
            f == FreqDescriptor(last.arg[2])
            \* the writes between the DSM enable and the DSM disable
            body == {i \in 2..Len(ws) : ws[i].a # 9}
        IN  /\ last.log[1].k = "R" /\ last.log[1].a = 9
            /\ last.log[1].st # OK => Len(last.log) = 1
            /\ ws # <<>> =>
                  /\ ws[1].a = 9 /\ ws[1].v % 2 = 1 /\ Bit(ws[1].v, 2) = 1
                  /\ ws[1].st # OK => (Len(ws) = 1 /\ Len(last.log) = 2)
                  /\ ws[1].st = OK => EndsWithDsmDisable(last)
                  /\ \A i \in 2..Len(ws) : ws[i].a = 9 => i = Len(ws)
                  /\ \A i \in body :
                        /\ ws[i].a = base + ProgramOrder[IF i - 1 < 9 THEN i - 1 ELSE 9]
                        /\ ws[i].st # OK => \A j \in body : j <= i
                        /\ i \in 3..6 => ws[i].v = DividerBytes(f)[i - 2]

\* a tuning of the RX PLL to 915.123456 MHz that went through all the steps
SetFrequencyOrderWitness ==
    /\ last.op = "lms_set_frequency"
    /\ last.st = OK
    /\ last.arg = <<"RX", Hz(915, 123456)>>
    /\ Len(WriteSeq(last)) > 11
    /\ WriteSeq(last)[3].a = 32 /\ WriteSeq(last)[6].a = 35
    /\ WriteSeq(last)[6].v = FreqDescriptor(Hz(915, 123456)).nfrac % 256
    /\ FreqDescriptor(Hz(915, 123456)).nfrac % 256 # 0

RfLoopbackModes == {"BLADERF_LB_RF_LNA1", "BLADERF_LB_RF_LNA2", "BLADERF_LB_RF_LNA3"}

\* C37: after any sequence of successful lms_set_loopback_mode calls from
\* the normal configuration, the RF loopback switch (0x0b bit 0) is enabled
\* and the LNAs are powered down (0x7d bit 0, 0x70 bit 1) if and only if
\* the mode engaged last is an RF variant, and RXVGA1 is disabled (0x7d
\* bit 3) only if that mode is a baseband variant that feeds the RX LPF
\* input, whatever mode was engaged before.
LoopbackRxSideByMode ==
    (last.op = "lms_set_loopback_mode" /\ last.st = OK) =>
        /\ (Bit(regs[11], 0) = 1) = (last.arg \in RfLoopbackModes)
        /\ (Bit(regs[125], 0) = 1) = (last.arg \in RfLoopbackModes)
        /\ (Bit(regs[112], 1) = 1) = (last.arg \in RfLoopbackModes)
        /\ Bit(regs[125], 3) = 1 =>
              last.arg \in {"BLADERF_LB_BB_TXLPF_RXLPF", "BLADERF_LB_BB_TXVGA1_RXLPF"}

(* ---- Sequences of lms_lpf_set_mode, lms_lpf_enable and              ---- *)
(* ---- lms_lpf_get_mode calls on one module's filter registers        ---- *)

MaxTxLpfSeq == 4

LpfModes == {"BLADERF_LPF_NORMAL", "BLADERF_LPF_BYPASSED", "BLADERF_LPF_DISABLED"}

LpfBothSet(r, mod) ==
    LET reg == IF mod = "RX" THEN 84 ELSE 52
    IN  Bit(r[reg], 1) = 1 /\ Bit(r[reg + 1], 6) = 1

\* register contents whose enable and bypass bits are not both set
InitLpfSeq ==
    /\ env = NominalEnv
    /\ \E data_l \in {0, 2, 253}, data_h \in {0, 64, 191},
          rx \in BOOLEAN :
           /\ regs = [ZeroRegs EXCEPT ![IF rx THEN 84 ELSE 52] = data_l,
                                      ![IF rx THEN 85 ELSE 53] = data_h]
           /\ ~LpfBothSet(regs, "RX") /\ ~LpfBothSet(regs, "TX")
    /\ pc = "ready"
    /\ last = NoCall
    /\ prev = [op |-> "none", arg |-> "none", st |-> OK]

\* a call whose transaction fails ends the sequence
LpfSetModeSeq ==
    \E mod \in {"RX", "TX"}, mode \in LpfModes, io \in Failures(MaxTxLpfSeq) :
        /\ pc = "ready"
        /\ \E m0 \in {Machine(regs, env, io)} :
           \E m \in {lms_lpf_set_mode(m0, mod, mode)} :
              /\ regs' = m.regs
              /\ last' = Call("lms_lpf_set_mode", [mod |-> mod, mode |-> mode], m0, m)
              /\ prev' = [op |-> last.op, arg |-> last.arg, st |-> last.st]
              /\ pc' = IF m.st = OK THEN "ready" ELSE "failed"
              /\ UNCHANGED env

LpfEnableSeq ==
    \E mod \in {"RX", "TX"}, enable \in BOOLEAN, io \in Failures(MaxTxLpfSeq) :
        /\ pc = "ready"
        /\ \E m0 \in {Machine(regs, env, io)} :
           \E m \in {lms_lpf_enable(m0, mod, enable)} :
              /\ regs' = m.regs
              /\ last' = Call("lms_lpf_enable", [mod |-> mod, enable |-> enable], m0, m)
              /\ prev' = [op |-> last.op, arg |-> last.arg, st |-> last.st]
              /\ pc' = IF m.st = OK THEN "ready" ELSE "failed"
              /\ UNCHANGED env

LpfGetModeSeq ==
    \E mod \in {"RX", "TX"} :
        /\ pc = "ready"
        /\ \E m0 \in {Machine(regs, env, NoFailure)} :
           \E m \in {lms_lpf_get_mode(m0, mod)} :
              /\ regs' = m.regs
              /\ last' = Call("lms_lpf_get_mode", [mod |-> mod], m0, m)
              /\ prev' = [op |-> last.op, arg |-> last.arg, st |-> last.st]
              /\ pc' = "ready"
              /\ UNCHANGED env

NextLpfSeq == LpfSetModeSeq \/ LpfEnableSeq \/ LpfGetModeSeq

SpecLpfSeq == InitLpfSeq /\ [][NextLpfSeq]_vars

\* the bits of the two filter registers of a module other than enable
\* (bit 1 of 0x34/0x54) and bypass (bit 6 of 0x35/0x55)
LpfOtherBits(r, mod) ==
    LET reg == IF mod = "RX" THEN 84 ELSE 52
    IN  <<Clear(r[reg], 2), Clear(r[reg + 1], 64)>>

\* C38: from registers whose LPF enable and bypass bits are not both set,
\* after any sequence of completed lms_lpf_set_mode and lms_lpf_enable
\* calls without a failed transaction the two bits are never both set,
\* lms_lpf_get_mode after lms_lpf_set_mode(m) returns m, and no other bit
\* of the two registers has changed.
LpfEncodingValid ==
    pc = "ready" =>
        /\ ~LpfBothSet(regs, "RX") /\ ~LpfBothSet(regs, "TX")
        /\ last.op # "none" =>
              /\ LpfOtherBits(regs, "RX") = LpfOtherBits(last.pre, "RX")
              /\ LpfOtherBits(regs, "TX") = LpfOtherBits(last.pre, "TX")
              /\ \A a \in (0..127) \ {52, 53, 84, 85} : regs[a] = last.pre[a]
        /\ (/\ last.op = "lms_lpf_get_mode"
            /\ prev.op = "lms_lpf_set_mode"
            /\ prev.arg.mod = last.arg.mod)
              => (last.st = OK /\ last.val = prev.arg.mode)

\* the filter was bypassed, lms_lpf_enable(true) has switched it to normal
\* operation, and the other bits of 0x55 are as before
LpfEncodingValidWitness ==
    /\ pc = "ready"
    /\ last.op = "lms_lpf_enable"
    /\ last.arg = [mod |-> "RX", enable |-> TRUE]
    /\ Bit(last.pre[85], 6) = 1
    /\ last.pre[85] = 255
    /\ regs[85] = 191
    /\ Bit(regs[84], 1) = 1
    /\ prev.op = "lms_lpf_set_mode" /\ prev.arg.mode = "BLADERF_LPF_BYPASSED"

\* C39: for every 8-bit content of the gain register each get-gain
\* operation returns a value inside the range of its stage:
\* lms_rxvga1_get_gain in 5..30, lms_rxvga2_get_gain in 0..30,
\* lms_txvga1_get_gain in -35..-4, lms_txvga2_get_gain in 0..25.
GetGainInRange ==
    (last.op = "get_gain" /\ last.st = OK) =>
        /\ last.val >= GainMin(last.arg.stage)
        /\ last.val <= GainMax(last.arg.stage)

(* ---- lms_set_frequency and lms_select_band calls after a loopback   ---- *)
(* ---- mode has been engaged                                          ---- *)

MaxTxProtect == 2

ProtectFrequencies == {Hz(915, 0), Hz(2400, 0)}

InitProtect ==
    /\ env = NominalEnv
    /\ regs = TunedTo(NominalEnv, Hz(915, 0), Hz(2400, 0))
    /\ pc = "idle"
    /\ last = NoCall
    /\ prev = [mode |-> "none", pa |-> 0, lna |-> 0]

\* prev keeps the mode engaged and the PA and LNA registers it left
SetLoopbackModeProtect ==
    \E mode \in LoopbackModes :
        /\ pc = "idle"
        /\ \E m0 \in {Machine(regs, env, NoFailure)} :
           \E m \in {lms_set_loopback_mode(m0, mode)} :
              /\ regs' = m.regs
              /\ last' = Call("lms_set_loopback_mode", mode, m0, m)
              /\ prev' = [mode |-> mode, pa |-> m.regs[68], lna |-> m.regs[117]]
              /\ pc' = IF m.st = OK THEN "loopback" ELSE "done"
              /\ UNCHANGED env

SetFrequencyProtect ==
    \E mod \in {"RX", "TX"}, freq \in ProtectFrequencies, io \in Failures(MaxTxProtect) :
        /\ pc \in {"loopback", "called"}
        /\ \E m0 \in {Machine(regs, env, io)} :
           \E m \in {lms_set_frequency(m0, mod, freq)} :
              /\ regs' = m.regs
              /\ last' = Call("lms_set_frequency", <<mod, freq>>, m0, m)
              /\ pc' = IF pc = "loopback" THEN "called" ELSE "done"
              /\ UNCHANGED <<env, prev>>

SelectBandProtect ==
    \E mod \in {"RX", "TX"}, freq \in ProtectFrequencies, io \in Failures(MaxTxProtect) :
        /\ pc \in {"loopback", "called"}
        /\ \E m0 \in {Machine(regs, env, io)} :
           \E m \in {lms_select_band(m0, mod, freq)} :
              /\ regs' = m.regs
              /\ last' = Call("lms_select_band", <<mod, freq>>, m0, m)
              /\ pc' = IF pc = "loopback" THEN "called" ELSE "done"
              /\ UNCHANGED <<env, prev>>

NextProtect == SetLoopbackModeProtect \/ SetFrequencyProtect \/ SelectBandProtect

SpecProtect == InitProtect /\ [][NextProtect]_vars

=============================================================================
